---- MODULE Spec2Model ----
(***************************************************************************)
(* A model of the Game Boy Color emulator tstr92/gbc-emulator: the SM83    *)
(* interpreter (cpu.c), the memory bus with its OAM-DMA and VRAM-DMA       *)
(* engines (bus.c), the timer (timer.c) and the tick driver                *)
(* (bus_tick, emulator_run).                                               *)
(*                                                                         *)
(* Every C function is an operator on a machine record M that holds the    *)
(* file-scope statics of the components (cpu, bus, timer, ...); an action  *)
(* applies one of these operators to the current state.  Bytes are         *)
(* 0..255, words 0..65535, arithmetic wraps as uint8_t/uint16_t do.        *)
(* RAMs are zero-initialised C arrays; they are kept as functions from the *)
(* cells that hold a non-zero byte, every other cell reads 0.              *)
(***************************************************************************)
EXTENDS Integers, Sequences, FiniteSets, TLC

VARIABLES
    cpu,                 \* sm83_t cpu                       (cpu.c)
    isr_state,           \* static isr_state of cpu_handle_interrupt
    isr,                 \* static isr of cpu_handle_interrupt
    bus,                 \* bus_t bus without its RAM arrays (bus.c); IF_ is bus.IF
    timer,               \* timer_t timer                    (timer.c)
    ppu,                 \* the PPU registers the bus decodes (ppu.c)
    wram,                \* bus.wram[8][4096], key bank*4096+offset
    hram,                \* bus.hram[127]
    ext_ram,             \* bus.ext_ram[16][8192], key bank*8192+offset
    vram,                \* vram[2].raw[8192], key bank*8192+offset
    oam,                 \* ppu.oam_raw[160]
    apu,                 \* the master registers of apu_mem_t apu (apu.c)
    joypad,              \* static JOYP (joypad.c) and the keys held on the host
    emulation_speed_cnt, \* static emulation_speed_cnt of bus_tick
    speed,               \* gEmulatorSpeed, returned by emulator_get_speed
    sched,               \* position of the emulation thread in emulator_run / bus_tick
    threads,             \* positions of the threads of main.c and gEmulatorDataCollected
    save,                \* gSaveFile, gSaveFileSize and the position in emulator_load_save_file
    hist                 \* history: what the last step did (not program state)

vars == <<cpu, isr_state, isr, bus, timer, ppu, wram, hram, ext_ram, vram, oam,
          apu, joypad, emulation_speed_cnt, speed, sched, threads, save, hist>>

(***************************************************************************)
(* Bit operations on naturals.                                             *)
(***************************************************************************)
RECURSIVE AndBits(_, _)
AndBits(x, y) ==
    IF x = 0 \/ y = 0 THEN 0
    ELSE (x % 2) * (y % 2) + 2 * AndBits(x \div 2, y \div 2)

\* x & y of two nibbles, tabulated
AndNibble == [a \in 0 .. 15 |-> [b \in 0 .. 15 |-> AndBits(a, b)]]

\* x & y, a nibble at a time
RECURSIVE And(_, _)
And(x, y) ==
    IF x = 0 \/ y = 0 THEN 0
    ELSE AndNibble[x % 16][y % 16] + 16 * And(x \div 16, y \div 16)

Or(x, y) == x + y - And(x, y)

Xor(x, y) == x + y - 2 * And(x, y)

U8(x) == x % 256

U16(x) == x % 65536

HIGH_BYTE(w) == And(w, 65280) \div 256

LOW_BYTE(w) == And(w, 255)

\* (int8_t) of a byte
S8(x) == IF x >= 128 THEN x - 256 ELSE x

Byte == 0 .. 255

(***************************************************************************)
(* Zero-initialised arrays.                                                *)
(***************************************************************************)
\* An array is kept in rows of 16 cells; only the rows that hold a non-zero
\* byte are present.
EmptyMem == [p \in {} |-> <<>>]

ZeroRow == [i \in 1 .. 16 |-> 0]

MemGet(m, k) ==
    IF k \div 16 \in DOMAIN m THEN m[k \div 16][(k % 16) + 1] ELSE 0

MemPut(m, k, v) ==
    LET p == k \div 16
        present == p \in DOMAIN m
        row == [(IF present THEN m[p] ELSE ZeroRow) EXCEPT ![(k % 16) + 1] = v]
    IN IF row = ZeroRow
       THEN IF present THEN [x \in DOMAIN m \ {p} |-> m[x]] ELSE m
       ELSE IF present THEN [m EXCEPT ![p] = row] ELSE (p :> row) @@ m

(***************************************************************************)
(* Program constants.                                                      *)
(***************************************************************************)
FLAG_Z == 128
FLAG_N == 64
FLAG_H == 32
FLAG_C == 16

INTERRUPT_ENABLE_ADDRESS == 65535
INTERRUPT_FLAGS_ADDRESS == 65295

INTERRUPT_VBLANK == 1
INTERRUPT_LCD == 2
INTERRUPT_TIMER == 4
INTERRUPT_SERIAL == 8
INTERRUPT_JOYPAD == 16

ISR_VECTOR_VBLANK == 64
ISR_VECTOR_LCD == 72
ISR_VECTOR_TIMER == 80
ISR_VECTOR_SERIAL == 88
ISR_VECTOR_JOYPAD == 96

DMA == 65350
KEY1 == 65357
RP == 65366
SVBK == 65392
SVBK_WRAM_BANK == 7
VBK == 65359

DMA_DST_BASE == 65024
DMA_CP_LEN == 160
VRAM_DMA_LEN_MSK == 127
VRAM_DMA_HBLANK_MSK == 128
VRAM_DMA_CP_CYCLES == 32

KEY1_DOUBLE_SPEED == 128
KEY1_SWITCH_ARMED == 1

TIMER_ADDR_DIV == 65284
TIMER_ADDR_TIMA == 65285
TIMER_ADDR_TMA == 65286
TIMER_ADDR_TAC == 65287
TAC_CLKSEL_MSK == 3
TAC_EN_MSK == 4

\* cartridge_header_t.cartridge_type of an MBC5 cartridge (case 0x19 ... 0x1E)
MBC5_TYPE == 25

\* the cartridge image: rom[bank][offset].  The image is an input of the
\* program; a fixed pattern that differs from cell to cell stands for it.
Rom(bank, off) == (off * 7 + bank * 13 + (bank \div 256) * 101 + 1) % 256

\* PPU register addresses and masks (ppu.c)
LCDC == 65344
STAT == 65345
SCY == 65346
SCX == 65347
LY == 65348
LYC == 65349
BGP == 65351
OBP0 == 65352
OBP1 == 65353
WY == 65354
WX == 65355
BCPS_BGPI == 65384
BCPD_BGPD == 65385
OCPS_OBPI == 65386
OCPD_OBPD == 65387
OPRI == 65388
STAT_PPU_MODE == 3
STAT_LYC_EQ_LY == 4
PALETTE_ADDR_MSK == 63
PALETTE_AUTO_INC_MSK == 128
PALETTE_SPEC_MSK == 191

(***************************************************************************)
(* timer.c                                                                 *)
(***************************************************************************)
gbc_timer_get_memory(M, addr) ==
    CASE addr = TIMER_ADDR_DIV -> M.timer.DIVA
      [] addr = TIMER_ADDR_TIMA -> M.timer.TIMA
      [] addr = TIMER_ADDR_TMA -> M.timer.TMA
      [] addr = TIMER_ADDR_TAC -> M.timer.TAC
      [] OTHER -> 0

\* a timer whose DIV register stores what is written to it (used to test C15)
TimerSetStoresDiv(M, addr, val) ==
    CASE addr = TIMER_ADDR_DIV -> [M EXCEPT !.timer.DIVA = val]
      [] addr = TIMER_ADDR_TIMA -> [M EXCEPT !.timer.TIMA = val]
      [] addr = TIMER_ADDR_TMA -> [M EXCEPT !.timer.TMA = val]
      [] addr = TIMER_ADDR_TAC -> [M EXCEPT !.timer.TAC = val]
      [] OTHER -> M

gbc_timer_set_memory(M, addr, val) ==
    CASE addr = TIMER_ADDR_DIV -> [M EXCEPT !.timer.DIVA = 0]
      [] addr = TIMER_ADDR_TIMA -> [M EXCEPT !.timer.TIMA = val]
      [] addr = TIMER_ADDR_TMA -> [M EXCEPT !.timer.TMA = val]
      [] addr = TIMER_ADDR_TAC -> [M EXCEPT !.timer.TAC = val]
      [] OTHER -> M

gbc_timer_diva_reset(M) == [M EXCEPT !.timer.DIVA = 0]

(***************************************************************************)
(* ppu.c: the register file behind the bus.                                *)
(***************************************************************************)
gbc_ppu_get_memory(M, addr) ==
    CASE addr \in 32768 .. 40959 ->
            MemGet(M.vram, And(M.ppu.vbk, 1) * 8192 + And(addr, 8191))
      [] addr = LCDC -> M.ppu.lcdc
      [] addr = STAT -> M.ppu.stat
      [] addr = SCY -> M.ppu.scy
      [] addr = SCX -> M.ppu.scx
      [] addr = LY -> M.ppu.ly
      [] addr = LYC -> M.ppu.bgp      \* case LYC has no break and runs into case BGP
      [] addr = BGP -> M.ppu.bgp
      [] addr = OBP0 -> M.ppu.obp0
      [] addr = OBP1 -> M.ppu.obp1
      [] addr = WY -> M.ppu.wy
      [] addr = WX -> M.ppu.wx
      [] addr = VBK -> Or(M.ppu.vbk, 254)
      [] addr = BCPS_BGPI -> M.ppu.bcps_bgpi
      [] addr = BCPD_BGPD ->
            IF M.ppu.mode # "mode3_draw"
            THEN MemGet(M.ppu.bg_cram, And(M.ppu.bcps_bgpi, PALETTE_ADDR_MSK))
            ELSE 0
      [] addr = OCPS_OBPI -> M.ppu.ocps_obpi
      [] addr = OCPD_OBPD ->
            IF M.ppu.mode # "mode3_draw"
            THEN MemGet(M.ppu.obj_cram, And(M.ppu.ocps_obpi, PALETTE_ADDR_MSK))
            ELSE 0
      [] addr = OPRI -> M.ppu.opri
      [] addr \in 65024 .. 65183 -> MemGet(M.oam, And(addr, 255))
      [] OTHER -> 0

gbc_ppu_set_memory(M, addr, val) ==
    CASE addr \in 32768 .. 40959 ->
            [M EXCEPT !.vram = MemPut(@, And(M.ppu.vbk, 1) * 8192 + And(addr, 8191), val)]
      [] addr = LCDC -> [M EXCEPT !.ppu.lcdc = val]
      [] addr = STAT ->
            [M EXCEPT !.ppu.stat =
                Or(And(@, STAT_PPU_MODE + STAT_LYC_EQ_LY),
                   And(val, 255 - (STAT_PPU_MODE + STAT_LYC_EQ_LY)))]
      [] addr = SCY -> [M EXCEPT !.ppu.scy = val]
      [] addr = SCX -> [M EXCEPT !.ppu.scx = val]
      [] addr = LY -> [M EXCEPT !.ppu.ly = val]
      [] addr = LYC -> [M EXCEPT !.ppu.lyc = val]
      [] addr = BGP -> [M EXCEPT !.ppu.bgp = val]
      [] addr = OBP0 -> [M EXCEPT !.ppu.obp0 = val]
      [] addr = OBP1 -> [M EXCEPT !.ppu.obp1 = val]
      [] addr = WY -> [M EXCEPT !.ppu.wy = val]
      [] addr = WX -> [M EXCEPT !.ppu.wx = val]
      [] addr = VBK -> [M EXCEPT !.ppu.vbk = And(val, 1)]
      [] addr = BCPS_BGPI -> [M EXCEPT !.ppu.bcps_bgpi = val]
      [] addr = BCPD_BGPD ->
            [M EXCEPT
                !.ppu.bg_cram =
                    IF M.ppu.mode # "mode3_draw"
                    THEN MemPut(@, And(M.ppu.bcps_bgpi, PALETTE_ADDR_MSK), val)
                    ELSE @,
                !.ppu.bcps_bgpi =
                    IF And(@, PALETTE_AUTO_INC_MSK) # 0
                    THEN And(@ + 1, PALETTE_SPEC_MSK)
                    ELSE @]
      [] addr = OCPS_OBPI -> [M EXCEPT !.ppu.ocps_obpi = val]
      [] addr = OCPD_OBPD ->
            [M EXCEPT
                !.ppu.obj_cram =
                    IF M.ppu.mode # "mode3_draw"
                    THEN MemPut(@, And(M.ppu.ocps_obpi, PALETTE_ADDR_MSK), val)
                    ELSE @,
                !.ppu.ocps_obpi =
                    IF And(@, PALETTE_AUTO_INC_MSK) # 0
                    THEN And(@ + 1, PALETTE_SPEC_MSK)
                    ELSE @]
      [] addr = OPRI -> [M EXCEPT !.ppu.opri = val]
      [] addr \in 65024 .. 65183 -> [M EXCEPT !.oam = MemPut(@, And(addr, 255), val)]
      [] OTHER -> M

(***************************************************************************)
(* apu.c: the registers 0xFF10-0xFF26 and the state of the four channels   *)
(* that the sweep, the length timers and the envelopes work on.  The       *)
(* waveform generators (duty pattern, wave RAM, LFSR), the outputs and the *)
(* sample mixer are not part of the model.                                 *)
(***************************************************************************)
APU_ADDR_CH1_SWEEP == 65296
APU_ADDR_CH1_LENGTH_TIM_DC == 65297
APU_ADDR_CH1_VOL_ENVELOPE == 65298
APU_ADDR_CH1_PERIOD_LOW == 65299
APU_ADDR_CH1_PERIOD_HIGH_CTRL == 65300
APU_ADDR_CH2_LENGTH_TIM_DC == 65301
APU_ADDR_CH2_VOL_ENVELOPE == 65303
APU_ADDR_CH2_PERIOD_LOW == 65304
APU_ADDR_CH2_PERIOD_HIGH_CTRL == 65305
APU_ADDR_CH3_DAC_EN == 65306
APU_ADDR_CH3_LENGTH_TIM == 65307
APU_ADDR_CH3_OUT_LVL == 65308
APU_ADDR_CH3_PERIOD_LOW == 65309
APU_ADDR_CH3_PERIOD_HIGH_CTRL == 65310
APU_ADDR_CH4_LENGTH_TIM == 65312
APU_ADDR_CH4_VOL_ENVELOPE == 65313
APU_ADDR_CH4_FREQ_RAND == 65314
APU_ADDR_CH4_CTRL == 65315
APU_ADDR_MASTER_VOL_VIN_PAN == 65316
APU_ADDR_SOUND_PANNING == 65317
APU_ADDR_AUDIO_MASTER_CONTROL == 65318
AUDIO_MASTER_CONTROL_AUDIO_ON == 128
AUDIO_MASTER_CONTROL_CH1_ON == 1
AUDIO_MASTER_CONTROL_CH2_ON == 2
AUDIO_MASTER_CONTROL_CH3_ON == 4
AUDIO_MASTER_CONTROL_CH4_ON == 8
CH_LENGTH_TIMER_MSK == 63
CH_LENGTH_EN == 64
CH_TRIGGER == 128
CH123_PERIOD_HIGH_MSK == 7
CH12_SWEEP_PACE_MSK == 112
CH12_SWEEP_DIR_SUBTRACT_MSK == 8
CH12_SWEEP_STEP_MSK == 7
CH124_INITIAL_VOLUME_MSK == 240
CH124_ENV_DIR_INC_MSK == 8
CH124_ENV_SWEEP_PACE_MSK == 7
CH3_DAC_EN_MSK == 128
CH12_PERIOD_SWEEP_PRESCALER == 4
CH_LENGTH_TIMER_PRESCALER == 2
CH124_ENVELOPE_SWEEP_PRESCALER == 8
CH123_PERIOD_OVERFLOW == 2048
CH12_LENGTH_TIMER_OVERFLOW == 64
MAX_NUM_SAMPLES == 550

\* x >> n
Shr(x, n) == x \div (2 ^ n)

\* the latches of a trigger that channel 1, 2 and 4 share: volume and envelope
\* from the channel's NRx2, the envelope counters reset
ChLatchEnvelope(x, vol_envelope) ==
    [x EXCEPT !.volume = Shr(And(vol_envelope, CH124_INITIAL_VOLUME_MSK), 4),
              !.envelope_dir_increase = And(vol_envelope, CH124_ENV_DIR_INC_MSK) # 0,
              !.envelope_sweep_pace = And(vol_envelope, CH124_ENV_SWEEP_PACE_MSK),
              !.envelope_sweep_pace_counter = 0,
              !.envelope_sweep_pace_prescaler = 0]

\* "reset length-timer if it is expired"
ChReloadLength(x, length_tim) ==
    IF x.length_timer = 0
    THEN [x EXCEPT !.length_timer = length_tim, !.length_timer_prescaler = 0]
    ELSE x

\* "turn off if the volume is 0 and decreasing"
ChVolumeOff(x) ==
    IF x.volume = 0 /\ ~x.envelope_dir_increase THEN [x EXCEPT !.running = FALSE] ELSE x

\* a write of NRx2 with initial volume 0 and direction decrease stops the channel
ChEnvelopeWrite(x, val) ==
    IF And(val, CH124_INITIAL_VOLUME_MSK) = 0 /\ And(val, CH124_ENV_DIR_INC_MSK) = 0
    THEN [x EXCEPT !.running = FALSE] ELSE x

\* case APU_ADDR_CH1_PERIOD_HIGH_CTRL with CH_TRIGGER set, a the registers
Ch1Trigger(x, a) ==
    LET period == a.ch1_period_low + And(a.ch1_period_high_ctrl, CH123_PERIOD_HIGH_MSK) * 256
        step == And(a.ch1_sweep, CH12_SWEEP_STEP_MSK)
        subtract == And(a.ch1_sweep, CH12_SWEEP_DIR_SUBTRACT_MSK) # 0
        x1 == [x EXCEPT !.running = ~(/\ step # 0 /\ ~subtract
                                      /\ CH123_PERIOD_OVERFLOW <= U16(period + Shr(period, step))),
                        !.period_sweep_pace = Shr(And(a.ch1_sweep, CH12_SWEEP_PACE_MSK), 4),
                        !.period_sweep_dir_subtract = subtract,
                        !.period_sweep_step = step,
                        !.period = period,
                        !.period_sweep_pace_counter = 0,
                        !.period_sweep_pace_prescaler = 0]
    IN ChVolumeOff(ChReloadLength(ChLatchEnvelope(x1, a.ch1_vol_envelope),
                                  And(a.ch1_length_tim_dc, CH_LENGTH_TIMER_MSK)))

\* case APU_ADDR_CH2_PERIOD_HIGH_CTRL with CH_TRIGGER set
Ch2Trigger(x, a) ==
    LET x1 == [x EXCEPT !.running = TRUE,
                        !.period = a.ch2_period_low
                                   + And(a.ch2_period_high_ctrl, CH123_PERIOD_HIGH_MSK) * 256,
                        !.period_sweep_dir_subtract = TRUE,
                        !.period_sweep_pace = 0]
    IN ChVolumeOff(ChReloadLength(ChLatchEnvelope(x1, a.ch2_vol_envelope),
                                  And(a.ch2_length_tim_dc, CH_LENGTH_TIMER_MSK)))

\* case APU_ADDR_CH3_PERIOD_HIGH_CTRL with CH_TRIGGER set: the length timer
\* is loaded from NR31 at every trigger
Ch3Trigger(x, a) ==
    [x EXCEPT !.running = x.dac_en,
              !.period = a.ch3_period_low
                         + And(a.ch3_period_high_ctrl, CH123_PERIOD_HIGH_MSK) * 256,
              !.length_timer = a.ch3_length_tim,
              !.length_timer_prescaler = IF a.ch3_length_tim = 0 THEN 0 ELSE @]

\* case APU_ADDR_CH4_CTRL with CH_TRIGGER set
Ch4Trigger(x, a) ==
    ChVolumeOff(ChReloadLength(ChLatchEnvelope([x EXCEPT !.running = TRUE],
                                               a.ch4_vol_envelope),
                               And(a.ch4_length_tim, CH_LENGTH_TIMER_MSK)))

gbc_apu_get_memory(M, addr) ==
    CASE addr = APU_ADDR_CH1_SWEEP -> M.apu.ch1_sweep
      [] addr = APU_ADDR_CH1_VOL_ENVELOPE -> M.apu.ch1_vol_envelope
      [] addr = APU_ADDR_CH2_VOL_ENVELOPE -> M.apu.ch2_vol_envelope
      [] addr = APU_ADDR_CH3_DAC_EN -> M.apu.ch3_dac_en
      [] addr = APU_ADDR_CH3_OUT_LVL -> M.apu.ch3_out_lvl
      [] addr = APU_ADDR_CH4_VOL_ENVELOPE -> M.apu.ch4_vol_envelope
      [] addr = APU_ADDR_CH4_FREQ_RAND -> M.apu.ch4_freq_rand
      [] addr = APU_ADDR_MASTER_VOL_VIN_PAN -> M.apu.master_vol_vin_pan
      [] addr = APU_ADDR_SOUND_PANNING -> M.apu.sound_panning
      [] addr = APU_ADDR_AUDIO_MASTER_CONTROL -> M.apu.audio_master_control
      [] addr \in {APU_ADDR_CH1_LENGTH_TIM_DC, APU_ADDR_CH1_PERIOD_LOW,
                   APU_ADDR_CH1_PERIOD_HIGH_CTRL, APU_ADDR_CH2_LENGTH_TIM_DC,
                   APU_ADDR_CH2_PERIOD_LOW, APU_ADDR_CH2_PERIOD_HIGH_CTRL,
                   APU_ADDR_CH3_LENGTH_TIM, APU_ADDR_CH3_PERIOD_LOW,
                   APU_ADDR_CH3_PERIOD_HIGH_CTRL, APU_ADDR_CH4_LENGTH_TIM,
                   APU_ADDR_CH4_CTRL, 65302, 65311} \cup (65319 .. 65327) -> 255
      [] OTHER -> 0

gbc_apu_set_memory(M, addr, val) ==
    LET a == M.apu IN
    CASE addr = APU_ADDR_CH1_SWEEP -> [M EXCEPT !.apu.ch1_sweep = val]
      [] addr = APU_ADDR_CH1_LENGTH_TIM_DC -> [M EXCEPT !.apu.ch1_length_tim_dc = val]
      [] addr = APU_ADDR_CH1_VOL_ENVELOPE ->
            [M EXCEPT !.apu.ch1_vol_envelope = val, !.apu.ch1 = ChEnvelopeWrite(@, val)]
      [] addr = APU_ADDR_CH1_PERIOD_LOW -> [M EXCEPT !.apu.ch1_period_low = val]
      [] addr = APU_ADDR_CH1_PERIOD_HIGH_CTRL ->
            [M EXCEPT !.apu.ch1_period_high_ctrl = val,
                      !.apu.ch1 =
                        IF And(val, CH_TRIGGER) # 0
                        THEN Ch1Trigger([@ EXCEPT !.length_enable = And(val, CH_LENGTH_EN) # 0],
                                        [a EXCEPT !.ch1_period_high_ctrl = val])
                        ELSE [@ EXCEPT !.length_enable = And(val, CH_LENGTH_EN) # 0]]
      [] addr = APU_ADDR_CH2_LENGTH_TIM_DC ->
            [M EXCEPT !.apu.ch2_length_tim_dc = val,
                      !.apu.ch2.length_timer = And(val, CH_LENGTH_TIMER_MSK)]
      [] addr = APU_ADDR_CH2_VOL_ENVELOPE ->
            [M EXCEPT !.apu.ch2_vol_envelope = val, !.apu.ch2 = ChEnvelopeWrite(@, val)]
      [] addr = APU_ADDR_CH2_PERIOD_LOW -> [M EXCEPT !.apu.ch2_period_low = val]
      [] addr = APU_ADDR_CH2_PERIOD_HIGH_CTRL ->
            [M EXCEPT !.apu.ch2_period_high_ctrl = val,
                      !.apu.ch2 =
                        IF And(val, CH_TRIGGER) # 0
                        THEN Ch2Trigger([@ EXCEPT !.length_enable = And(val, CH_LENGTH_EN) # 0],
                                        [a EXCEPT !.ch2_period_high_ctrl = val])
                        ELSE [@ EXCEPT !.length_enable = And(val, CH_LENGTH_EN) # 0]]
      [] addr = APU_ADDR_CH3_DAC_EN ->
            [M EXCEPT !.apu.ch3_dac_en = val,
                      !.apu.ch3.dac_en = And(val, CH3_DAC_EN_MSK) # 0,
                      !.apu.ch3.running = IF And(val, CH3_DAC_EN_MSK) # 0 THEN @ ELSE FALSE]
      [] addr = APU_ADDR_CH3_LENGTH_TIM ->
            [M EXCEPT !.apu.ch3_length_tim = val, !.apu.ch3.length_timer = val]
      [] addr = APU_ADDR_CH3_OUT_LVL -> [M EXCEPT !.apu.ch3_out_lvl = val]
      [] addr = APU_ADDR_CH3_PERIOD_LOW -> [M EXCEPT !.apu.ch3_period_low = val]
      [] addr = APU_ADDR_CH3_PERIOD_HIGH_CTRL ->
            [M EXCEPT !.apu.ch3_period_high_ctrl = val,
                      !.apu.ch3 =
                        IF And(val, CH_TRIGGER) # 0
                        THEN Ch3Trigger([@ EXCEPT !.length_enable = And(val, CH_LENGTH_EN) # 0],
                                        [a EXCEPT !.ch3_period_high_ctrl = val])
                        ELSE [@ EXCEPT !.length_enable = And(val, CH_LENGTH_EN) # 0]]
      [] addr = APU_ADDR_CH4_LENGTH_TIM ->
            [M EXCEPT !.apu.ch4_length_tim = val,
                      !.apu.ch4.length_timer = And(val, CH_LENGTH_TIMER_MSK)]
      [] addr = APU_ADDR_CH4_VOL_ENVELOPE ->
            [M EXCEPT !.apu.ch4_vol_envelope = val, !.apu.ch4 = ChEnvelopeWrite(@, val)]
      [] addr = APU_ADDR_CH4_FREQ_RAND -> [M EXCEPT !.apu.ch4_freq_rand = val]
      [] addr = APU_ADDR_CH4_CTRL ->
            [M EXCEPT !.apu.ch4 =
                        IF And(val, CH_TRIGGER) # 0
                        THEN Ch4Trigger([@ EXCEPT !.length_enable = And(val, CH_LENGTH_EN) # 0], a)
                        ELSE [@ EXCEPT !.length_enable = And(val, CH_LENGTH_EN) # 0]]
      [] addr = APU_ADDR_MASTER_VOL_VIN_PAN -> [M EXCEPT !.apu.master_vol_vin_pan = val]
      [] addr = APU_ADDR_SOUND_PANNING -> [M EXCEPT !.apu.sound_panning = val]
      [] addr = APU_ADDR_AUDIO_MASTER_CONTROL ->
            [M EXCEPT !.apu.audio_master_control =
                Or(And(@, 255 - AUDIO_MASTER_CONTROL_AUDIO_ON),
                   And(val, AUDIO_MASTER_CONTROL_AUDIO_ON))]
      [] OTHER -> M

(***************************************************************************)
(* joypad.c.  joypad.buttons is what gbc_joypad_buttons_cb returns: one    *)
(* bit per key held on the host, A B Select Start in bits 0-3 and Right    *)
(* Left Up Down in bits 4-7.                                               *)
(***************************************************************************)
JOYPAD_ADDRESS == 65280
KEY_SELECTION_MSK == 48
KEY_SELECTION_BTN == 16
KEY_SELECTION_D_PAD == 32
KEY_SELECTION_ALL == 0
BUTTONS_MSK == 15

\* JOYP as gbc_joypad_get_memory leaves it and returns it
JoypAfterRead(JOYP, buttons) ==
    LET released == Or(JOYP, BUTTONS_MSK)
        sel == And(released, KEY_SELECTION_MSK)
        btn == And(buttons, BUTTONS_MSK)
        dpad == And(buttons \div 16, BUTTONS_MSK)
    IN CASE sel = KEY_SELECTION_BTN -> And(released, 255 - btn)
         [] sel = KEY_SELECTION_D_PAD -> And(released, 255 - dpad)
         [] sel = KEY_SELECTION_ALL -> And(released, And(255 - btn, 255 - dpad))
         [] OTHER -> released

\* the machine after gbc_joypad_get_memory(addr); it returns the new JOYP
gbc_joypad_get_memory(M, addr) ==
    IF JOYPAD_ADDRESS = addr
    THEN [M EXCEPT !.joypad.JOYP = JoypAfterRead(@, M.joypad.buttons)]
    ELSE M

gbc_joypad_set_memory(M, addr, val) ==
    IF JOYPAD_ADDRESS = addr
    THEN [M EXCEPT !.joypad.JOYP =
            Or(And(@, 255 - KEY_SELECTION_MSK), And(val, KEY_SELECTION_MSK))]
    ELSE M

(***************************************************************************)
(* bus.c                                                                   *)
(* The serial port (0xFF01-0xFF02) and the sound channels (0xFF10-0xFF23,  *)
(* 0xFF27-0xFF3F) belong to components that are not part of the model; no  *)
(* step addresses them.                                                    *)
(***************************************************************************)
gbc_cpu_stall(M, num_ticks) == [M EXCEPT !.cpu.stall_cnt = num_ticks]

bus_get_memory(M, addr) ==
    CASE addr \in 0 .. 16383 -> Rom(0, And(addr, 16383))
      [] addr \in 16384 .. 32767 -> Rom(M.bus.rom_banksel, And(addr, 16383))
      [] addr \in 40960 .. 49151 ->
            IF M.bus.ext_ram_enabled
            THEN MemGet(M.ext_ram, M.bus.ext_ram_banksel * 8192 + And(addr, 8191))
            ELSE 0
      [] addr \in 49152 .. 53247 \/ addr \in 57344 .. 61439 ->
            MemGet(M.wram, And(addr, 4095))
      [] addr \in 53248 .. 57343 \/ addr \in 61440 .. 65023 ->
            MemGet(M.wram, M.bus.wram_banksel * 4096 + And(addr, 4095))
      [] addr = DMA -> M.bus.oam_dma.addr
      [] addr = KEY1 -> M.bus.key1
      [] addr \in 65361 .. 65364 -> 255
      \* case 0xFF55 has no break: its value is replaced by the PPU's answer
      [] addr = 65365 -> gbc_ppu_get_memory(M, addr)
      [] \/ addr \in 32768 .. 40959
         \/ addr \in 65344 .. 65349
         \/ addr \in 65351 .. 65355
         \/ addr = 65359
         \/ addr \in 65384 .. 65388
         \/ addr \in 65024 .. 65183 -> gbc_ppu_get_memory(M, addr)
      [] addr \in 65408 .. 65534 -> MemGet(M.hram, And(addr, 127))
      [] addr = INTERRUPT_FLAGS_ADDRESS -> M.bus.IF_
      [] addr = INTERRUPT_ENABLE_ADDRESS -> M.bus.IE
      \* the value read at 0xFF00; a step that reads it also stores it in JOYP
      [] addr = JOYPAD_ADDRESS -> gbc_joypad_get_memory(M, addr).joypad.JOYP
      [] addr \in 65284 .. 65287 -> gbc_timer_get_memory(M, addr)
      [] addr \in 65296 .. 65327 -> gbc_apu_get_memory(M, addr)
      [] addr = RP -> 2
      [] addr = SVBK -> M.bus.wram_banksel
      [] OTHER -> 0

bus_write_mbc5(M, addr, val) ==
    CASE addr \in 0 .. 8191 ->
            IF And(val, 15) = 10 THEN [M EXCEPT !.bus.ext_ram_enabled = TRUE]
            ELSE IF And(val, 15) = 0 THEN [M EXCEPT !.bus.ext_ram_enabled = FALSE]
            ELSE M
      [] addr \in 8192 .. 12287 ->
            [M EXCEPT !.bus.rom_banksel = Or(And(@, 65280), val)]
      [] addr \in 12288 .. 16383 ->
            [M EXCEPT !.bus.rom_banksel = Or(And(@, 255), And(val, 1) * 256)]
      [] addr \in 16384 .. 24575 ->
            [M EXCEPT !.bus.ext_ram_banksel = And(val, 15)]
      [] OTHER -> M

\* a cartridge whose bank controller ignores every write (used to test C12)
MbcIgnoresWrite(M, addr, val) == M

bus_write_mbc(M, addr, val) ==
    IF M.bus.cartridge_type \in 25 .. 30 THEN bus_write_mbc5(M, addr, val) ELSE M

\* a range check that accepts a source in the ROM only (used to test C10)
VramDmaParamsRomOnly(d) == d.src \in 0 .. 32752 /\ d.dst \in 32768 .. 40944

\* the condition on src and dst in case 0xFF55 of bus_set_memory
VramDmaParamsLegal(d) ==
    /\ d.src \in 0 .. 32752 \/ d.src \in 40960 .. 57328
    /\ d.dst \in 32768 .. 40944

RECURSIVE bus_set_memory(_, _, _)
RECURSIVE bus_dma_cpy_loop(_, _, _, _, _)

\* the iterations i = lo .. hi-1 of the loop of bus_dma_cpy, in order; the
\* range is halved, and the first half is evaluated before the second half
\* starts, so that the evaluation nests only log2(len) deep
bus_dma_cpy_loop(M, dst, src, lo, hi) ==
    IF lo >= hi THEN M
    ELSE IF hi = lo + 1
    THEN bus_set_memory(M, U16(dst + lo), bus_get_memory(M, U16(src + lo)))
    ELSE LET mid == (lo + hi) \div 2
             L == bus_dma_cpy_loop(M, dst, src, lo, mid)
         IN IF Len(L.log) >= 0 THEN bus_dma_cpy_loop(L, dst, src, mid, hi) ELSE L

bus_dma_cpy(M, dst, src, len) == bus_dma_cpy_loop(M, dst, src, 0, len)

\* case 0xFF55 of bus_set_memory
VramDmaStart(M, val) ==
    LET d == M.bus.vram_dma
        num_blocks == And(val, VRAM_DMA_LEN_MSK) + 1
        num_stall_cycles ==
            IF And(M.bus.key1, KEY1_DOUBLE_SPEED) # 0
            THEN 2 * VRAM_DMA_CP_CYCLES * num_blocks
            ELSE VRAM_DMA_CP_CYCLES * num_blocks
    IN
    IF M.bus.dmg_mode THEN M
    ELSE IF d.active /\ d.mode = "HBlank_dma" /\ And(val, 128) = 0
    THEN [M EXCEPT !.bus.vram_dma.active = FALSE]
    ELSE IF VramDmaParamsLegal(d)
    THEN IF And(val, VRAM_DMA_HBLANK_MSK) # 0
         THEN [M EXCEPT !.bus.vram_dma.len = num_blocks * 16,
                        !.bus.vram_dma.mode = "HBlank_dma",
                        !.bus.vram_dma.active = TRUE]
         ELSE LET M1 == [M EXCEPT !.bus.vram_dma.len = num_blocks * 16,
                                  !.bus.vram_dma.mode = "general_purpose_dma"]
                  M2 == bus_dma_cpy(M1, d.dst, d.src, num_blocks * 16)
                  M3 == gbc_cpu_stall(M2, num_stall_cycles)
              IN [M3 EXCEPT !.bus.vram_dma.active = FALSE]
    ELSE M

bus_set_memory(M0, addr, val) ==
    LET M == [M0 EXCEPT !.log = Append(@, <<addr, val>>)] IN
    CASE addr \in 0 .. 32767 -> bus_write_mbc(M, addr, val)
      [] addr \in 40960 .. 49151 ->
            IF M.bus.ext_ram_enabled
            THEN [M EXCEPT !.ext_ram =
                    MemPut(@, M.bus.ext_ram_banksel * 8192 + And(addr, 8191), val)]
            ELSE M
      [] addr \in 49152 .. 53247 \/ addr \in 57344 .. 61439 ->
            [M EXCEPT !.wram = MemPut(@, And(addr, 4095), val)]
      [] addr \in 53248 .. 57343 \/ addr \in 61440 .. 65023 ->
            [M EXCEPT !.wram = MemPut(@, M.bus.wram_banksel * 4096 + And(addr, 4095), val)]
      [] addr = DMA ->
            IF 223 >= val
            THEN [M EXCEPT !.bus.oam_dma =
                    [addr |-> val, offset |-> 0, prescaler |-> 0, active |-> TRUE]]
            ELSE M
      [] addr = KEY1 ->
            [M EXCEPT !.bus.key1 =
                Or(And(@, 255 - KEY1_SWITCH_ARMED), And(val, KEY1_SWITCH_ARMED))]
      [] addr = 65361 ->
            [M EXCEPT !.bus.vram_dma.src = Or(And(@, 65280), And(val, 240))]
      [] addr = 65362 ->
            [M EXCEPT !.bus.vram_dma.src = Or(And(@, 255), val * 256)]
      [] addr = 65363 ->
            [M EXCEPT !.bus.vram_dma.dst = Or(And(@, 65280), And(val, 240))]
      [] addr = 65364 ->
            [M EXCEPT !.bus.vram_dma.dst =
                Or(And(@, 255), Or(And(val, 31) * 256, 32768))]
      [] addr = 65365 -> VramDmaStart(M, val)
      [] \/ addr \in 32768 .. 40959
         \/ addr \in 65344 .. 65349
         \/ addr \in 65351 .. 65355
         \/ addr = 65359
         \/ addr \in 65384 .. 65388
         \/ addr \in 65024 .. 65183 -> gbc_ppu_set_memory(M, addr, val)
      [] addr \in 65408 .. 65534 -> [M EXCEPT !.hram = MemPut(@, And(addr, 127), val)]
      [] addr = JOYPAD_ADDRESS -> gbc_joypad_set_memory(M, addr, val)
      [] addr \in 65284 .. 65287 -> gbc_timer_set_memory(M, addr, val)
      [] addr \in 65296 .. 65318 -> gbc_apu_set_memory(M, addr, val)
      [] addr = SVBK ->
            [M EXCEPT !.bus.wram_banksel =
                IF And(val, SVBK_WRAM_BANK) = 0 THEN 1 ELSE And(val, SVBK_WRAM_BANK)]
      [] addr = INTERRUPT_FLAGS_ADDRESS -> [M EXCEPT !.bus.IF_ = val]
      [] addr = INTERRUPT_ENABLE_ADDRESS -> [M EXCEPT !.bus.IE = val]
      [] OTHER -> M

\* #define BUS_SET_IRQ(_irq) of bus.h
BUS_SET_IRQ(M, irq) ==
    bus_set_memory(M, INTERRUPT_FLAGS_ADDRESS,
                   Or(bus_get_memory(M, INTERRUPT_FLAGS_ADDRESS), irq))

\* a prescaler that is due one call early (used to test C9)
OamDmaPrescalerDueAt3(p) == 3 <= p

\* 4 <= ++bus.oam_dma.prescaler, p the incremented value
OamDmaPrescalerDue(p) == 4 <= p

bus_oam_dma_tick(M) ==
    LET o == M.bus.oam_dma IN
    IF ~o.active THEN M
    ELSE IF OamDmaPrescalerDue(U8(o.prescaler + 1))
    THEN LET M1 == [M EXCEPT !.bus.oam_dma.prescaler = 0]
             M2 == bus_dma_cpy(M1, U16(DMA_DST_BASE + o.offset),
                               U16(o.addr * 256 + o.offset), 1)
             off == U8(o.offset + 1)
         IN [M2 EXCEPT !.bus.oam_dma.offset = off,
                       !.bus.oam_dma.active = ~(DMA_CP_LEN <= off)]
    ELSE [M EXCEPT !.bus.oam_dma.prescaler = U8(o.prescaler + 1)]

\* a speed switch that does not ask whether it was armed (used to test C5)
SwitchSpeedUnasked(M) ==
    [M EXCEPT !.bus.key1 =
        And(Xor(@, KEY1_DOUBLE_SPEED), 255 - KEY1_SWITCH_ARMED)]

bus_stop_instr_cb(M) ==
    IF And(M.bus.key1, KEY1_SWITCH_ARMED) # 0
    THEN [M EXCEPT !.bus.key1 =
            And(Xor(@, KEY1_DOUBLE_SPEED), 255 - KEY1_SWITCH_ARMED)]
    ELSE M

\* an H-Blank callback that copies without advancing the addresses (used to
\* test C27)
HBlankCbSameBlock(M) ==
    LET d == M.bus.vram_dma IN
    IF ~d.active THEN M
    ELSE LET M1 == bus_dma_cpy(M, d.dst, d.src, 16)
             M2 == [M1 EXCEPT !.bus.vram_dma.len = U16(d.len - 16),
                              !.bus.vram_dma.active =
                                  IF U16(d.len - 16) = 0 THEN FALSE ELSE @]
         IN gbc_cpu_stall(M2,
                IF And(M.bus.key1, KEY1_DOUBLE_SPEED) # 0
                THEN 2 * VRAM_DMA_CP_CYCLES ELSE VRAM_DMA_CP_CYCLES)

bus_HBlank_cb(M) ==
    LET d == M.bus.vram_dma IN
    IF ~d.active THEN M
    ELSE LET M1 == bus_dma_cpy(M, d.dst, d.src, 16)
             M2 == [M1 EXCEPT !.bus.vram_dma.src = U16(d.src + 16),
                              !.bus.vram_dma.dst = U16(d.dst + 16),
                              !.bus.vram_dma.len = U16(d.len - 16),
                              !.bus.vram_dma.active =
                                  IF U16(d.len - 16) = 0 THEN FALSE ELSE @]
         IN gbc_cpu_stall(M2,
                IF And(M.bus.key1, KEY1_DOUBLE_SPEED) # 0
                THEN 2 * VRAM_DMA_CP_CYCLES ELSE VRAM_DMA_CP_CYCLES)

(***************************************************************************)
(* timer.c: gbc_timer_tick                                                 *)
(***************************************************************************)
\* a timer that ignores the clock select (used to test C16)
TimaPrescalerFlat(tac) == 16

TimaPrescaler(tac) ==
    LET sel == And(tac, TAC_CLKSEL_MSK) IN
    CASE sel = 0 -> 1024 [] sel = 1 -> 16 [] sel = 2 -> 64 [] OTHER -> 256

gbc_timer_tick(M) ==
    LET t == M.timer
        dp == U8(t.DIVA_PRESC_CNT + 1)
        M1 == [M EXCEPT !.timer.DIVA_PRESC_CNT = dp,
                        !.timer.DIVA = IF dp = 0 THEN U8(@ + 1) ELSE @]
        \* uint32_t; reset when it reaches the prescaler (at most 1024), so it never wraps
        tp == t.TIMA_PRESC_CNT + 1
    IN
    IF And(t.TAC, TAC_EN_MSK) = 0 THEN M1
    ELSE IF TimaPrescaler(t.TAC) <= tp
    THEN LET tima == U8(t.TIMA + 1)
             M2 == [M1 EXCEPT !.timer.TIMA_PRESC_CNT = 0, !.timer.TIMA = tima]
         IN IF tima = 0
            THEN BUS_SET_IRQ([M2 EXCEPT !.timer.TIMA = t.TMA], INTERRUPT_TIMER)
            ELSE M2
    ELSE [M1 EXCEPT !.timer.TIMA_PRESC_CNT = tp]

(***************************************************************************)
(* apu.c: gbc_apu_tick, the 512 Hz event of the frame sequencer.           *)
(***************************************************************************)
DIV_APU_BIT == 32

\* the period sweep of apu_ch12_tick: what it leaves of the channel x and
\* of the registers a (the write back goes to NR13/NR14 for either channel)
Ch12Sweep(x, a, div_apu_512Hz) ==
    LET presc == U8(x.period_sweep_pace_prescaler + 1)
        cnt == U8(x.period_sweep_pace_counter + 1)
        shifted == Shr(x.period, x.period_sweep_step)
        new_period == U16(IF x.period_sweep_dir_subtract
                          THEN x.period - shifted ELSE x.period + shifted)
        period == And(new_period, CH123_PERIOD_OVERFLOW - 1)
    IN
    IF ~(div_apu_512Hz /\ x.period_sweep_pace # 0) THEN [x |-> x, a |-> a]
    ELSE IF ~(CH12_PERIOD_SWEEP_PRESCALER <= presc)
    THEN [x |-> [x EXCEPT !.period_sweep_pace_prescaler = presc], a |-> a]
    ELSE IF ~(x.period_sweep_pace <= cnt)
    THEN [x |-> [x EXCEPT !.period_sweep_pace_prescaler = 0,
                          !.period_sweep_pace_counter = cnt],
          a |-> a]
    ELSE [x |-> [x EXCEPT !.period_sweep_pace_prescaler = 0,
                          !.period_sweep_pace_counter = 0,
                          !.running = IF CH123_PERIOD_OVERFLOW <= new_period THEN FALSE ELSE @,
                          !.period = period,
                          !.period_sweep_pace = Shr(And(a.ch1_sweep, CH12_SWEEP_PACE_MSK), 4),
                          !.period_sweep_dir_subtract =
                              And(a.ch1_sweep, CH12_SWEEP_DIR_SUBTRACT_MSK) # 0,
                          !.period_sweep_step = And(a.ch1_sweep, CH12_SWEEP_STEP_MSK)],
          a |-> [a EXCEPT !.ch1_period_low = And(period, 255),
                          !.ch1_period_high_ctrl =
                              Or(And(@, 255 - CH123_PERIOD_HIGH_MSK),
                                 And(Shr(period, 8), CH123_PERIOD_HIGH_MSK))]]

\* the length timer of a channel tick: the channel stops when the
\* incremented uint8_t timer has reached overflow (64 for channel 1 and 2)
\* or has wrapped to 0 (overflow = 256, channel 3 and 4)
ChLength(x, div_apu_512Hz, overflow) ==
    LET presc == U8(x.length_timer_prescaler + 1)
        tim == U8(x.length_timer + 1)
    IN
    IF ~(div_apu_512Hz /\ x.length_enable) THEN x
    ELSE IF ~(CH_LENGTH_TIMER_PRESCALER <= presc)
    THEN [x EXCEPT !.length_timer_prescaler = presc]
    ELSE IF (IF overflow = 256 THEN tim = 0 ELSE overflow <= tim)
    THEN [x EXCEPT !.length_timer_prescaler = 0, !.length_timer = 0, !.running = FALSE]
    ELSE [x EXCEPT !.length_timer_prescaler = 0, !.length_timer = tim]

\* the envelope of a channel tick
ChEnvelope(x, div_apu_512Hz) ==
    LET presc == U8(x.envelope_sweep_pace_prescaler + 1)
        cnt == U8(x.envelope_sweep_pace_counter + 1)
    IN
    IF ~(div_apu_512Hz /\ x.envelope_sweep_pace # 0) THEN x
    ELSE IF ~(CH124_ENVELOPE_SWEEP_PRESCALER <= presc)
    THEN [x EXCEPT !.envelope_sweep_pace_prescaler = presc]
    ELSE IF ~(x.envelope_sweep_pace <= cnt)
    THEN [x EXCEPT !.envelope_sweep_pace_prescaler = 0,
                   !.envelope_sweep_pace_counter = cnt]
    ELSE [x EXCEPT !.envelope_sweep_pace_prescaler = 0,
                   !.envelope_sweep_pace_counter = 0,
                   !.volume = IF x.envelope_dir_increase
                              THEN (IF 15 > @ THEN @ + 1 ELSE @)
                              ELSE (IF 0 < @ THEN @ - 1 ELSE @)]

\* apu_ch12_tick after the sweep has left the channel and the registers as r
Ch12AfterSweep(M, c, r, div_apu_512Hz) ==
    [M EXCEPT !.apu = [r.a EXCEPT ![c] =
        ChVolumeOff(ChEnvelope(ChLength(r.x, div_apu_512Hz, CH12_LENGTH_TIMER_OVERFLOW),
                               div_apu_512Hz))]]

\* apu_ch12_tick(chx, div_apu_512Hz) for chx = &ch1 (c = "ch1") or &ch2
apu_ch12_tick(M, c, div_apu_512Hz) ==
    LET id == IF c = "ch1" THEN AUDIO_MASTER_CONTROL_CH1_ON ELSE AUDIO_MASTER_CONTROL_CH2_ON
        a == [M.apu EXCEPT !.audio_master_control = Or(@, id)]
    IN
    IF M.apu[c].running
    THEN Ch12AfterSweep(M, c, Ch12Sweep(M.apu[c], a, div_apu_512Hz), div_apu_512Hz)
    ELSE [M EXCEPT !.apu.audio_master_control = And(@, 255 - id)]

apu_ch3_tick(M, div_apu_512Hz) ==
    IF M.apu.ch3.running
    THEN [M EXCEPT !.apu.audio_master_control = Or(@, AUDIO_MASTER_CONTROL_CH3_ON),
                   !.apu.ch3 = ChLength(@, div_apu_512Hz, 256)]
    ELSE [M EXCEPT !.apu.audio_master_control = And(@, 255 - AUDIO_MASTER_CONTROL_CH3_ON)]

apu_ch4_tick(M, div_apu_512Hz) ==
    IF M.apu.ch4.running
    THEN [M EXCEPT !.apu.audio_master_control = Or(@, AUDIO_MASTER_CONTROL_CH4_ON),
                   !.apu.ch4 = ChVolumeOff(ChEnvelope(ChLength(@, div_apu_512Hz, 256),
                                                      div_apu_512Hz))]
    ELSE [M EXCEPT !.apu.audio_master_control = And(@, 255 - AUDIO_MASTER_CONTROL_CH4_ON)]

\* the four channel ticks of gbc_apu_tick
ApuChannelsTick(M, div_apu_512Hz) ==
    apu_ch4_tick(apu_ch3_tick(apu_ch12_tick(apu_ch12_tick(M, "ch1", div_apu_512Hz),
                                            "ch2", div_apu_512Hz),
                              div_apu_512Hz),
                 div_apu_512Hz)

\* gbc_apu_tick up to the sampling timer: div_apu_512Hz from the static
\* last_div and the DIV register, last_div = div, then the channel ticks
gbc_apu_tick(M) ==
    LET div == gbc_timer_get_memory(M, TIMER_ADDR_DIV)
        div_apu_512Hz == Xor(And(M.apu.last_div, DIV_APU_BIT), And(div, DIV_APU_BIT)) # 0
    IN ApuChannelsTick([M EXCEPT !.apu.div_apu_512Hz = div_apu_512Hz,
                                 !.apu.last_div = div],
                       div_apu_512Hz)

(***************************************************************************)
(* cpu.c: the flag helpers.  Each takes the F register and returns it with *)
(* one flag bit set or cleared.                                            *)
(***************************************************************************)
SetFlag(f, flag, on) == IF on THEN Or(f, flag) ELSE And(f, 255 - flag)

eval_Z_flag(f, reg) == SetFlag(f, FLAG_Z, reg = 0)

set_Z_flag(f, zero) == SetFlag(f, FLAG_Z, zero)

set_N_flag(f, subtract) == SetFlag(f, FLAG_N, subtract)

eval_H_flag_c(f, target, operand, sub, carry) ==
    SetFlag(f, FLAG_H,
            IF ~sub
            THEN And(target, 15) + And(operand, 15) + carry > 15
            ELSE And(target, 15) - And(operand, 15) - carry < 0)

eval_H_flag(f, target, operand, sub) == eval_H_flag_c(f, target, operand, sub, 0)

eval_H_flag_16(f, target, operand) ==
    SetFlag(f, FLAG_H, And(target, 4095) + And(operand, 4095) > 4095)

set_H_flag(f, h) == SetFlag(f, FLAG_H, h)

eval_C_flag_c(f, target, operand, sub, carry) ==
    SetFlag(f, FLAG_C,
            IF ~sub
            THEN U16(target + operand + carry) > 255
            ELSE target - operand - carry < 0)

eval_C_flag(f, target, operand, sub) == eval_C_flag_c(f, target, operand, sub, 0)

eval_C_flag_16(f, target, operand) == SetFlag(f, FLAG_C, target + operand > 65535)

set_C_flag(f, c) == SetFlag(f, FLAG_C, c)

(***************************************************************************)
(* cpu.c: register access.  The unions af, bc, de, hl are kept as their    *)
(* byte halves.                                                            *)
(***************************************************************************)
\* dst_lut / target_lut: index 6 is NULL
Reg8Name == <<"b", "c", "d", "e", "h", "l", "none", "a">>

\* src_lut of PUSH, dst_lut of POP
Reg16Hi == <<"b", "d", "h", "a">>

Reg16Lo == <<"c", "e", "l", "f">>

GetReg16(M, r) == M.cpu[Reg16Hi[r + 1]] * 256 + M.cpu[Reg16Lo[r + 1]]

SetReg16(M, r, w) ==
    [M EXCEPT !.cpu[Reg16Hi[r + 1]] = HIGH_BYTE(w),
              !.cpu[Reg16Lo[r + 1]] = LOW_BYTE(w)]

\* what an opcode handler leaves: the machine and the returned cycle_cnt
Done(M, cycle_cnt) == [m |-> M, cycle_cnt |-> cycle_cnt]

\* bus_set_memory(--cpu.sp, val)
PushByte(M, val) ==
    LET sp == U16(M.cpu.sp - 1) IN
    bus_set_memory([M EXCEPT !.cpu.sp = sp], sp, val)

Flag(M, flag) == And(M.cpu.f, flag) # 0

\* case OPC_DAA
OpDaa(M) ==
    LET N == Flag(M, FLAG_N)
        C == Flag(M, FLAG_C)
        H == Flag(M, FLAG_H)
        a0 == M.cpu.a
        a1 == IF ~N
              THEN IF C \/ a0 > 153 THEN U8(a0 + 96) ELSE a0
              ELSE IF C THEN U8(a0 - 96 + 256) ELSE a0
        a2 == IF ~N
              THEN IF H \/ And(a1, 15) > 9 THEN U8(a1 + 6) ELSE a1
              ELSE IF H THEN U8(a1 - 6 + 256) ELSE a1
        new_C == IF ~N /\ (C \/ a0 > 153) THEN TRUE ELSE C
        f == eval_Z_flag(set_H_flag(set_C_flag(M.cpu.f, new_C), FALSE), a2)
    IN Done([M EXCEPT !.cpu.a = a2, !.cpu.f = f, !.cpu.pc = U16(@ + 1)], 4)

\* cases OPC_RLCA, OPC_RLA, OPC_RRCA, OPC_RRA
OpRotA(M, opcode) ==
    LET a == M.cpu.a
        bit7 == And(a, 128) # 0
        bit0 == And(a, 1) # 0
        c == Flag(M, FLAG_C)
        na == CASE opcode = 7 -> Or(U8(a * 2), IF bit7 THEN 1 ELSE 0)
                [] opcode = 23 -> Or(U8(a * 2), IF c THEN 1 ELSE 0)
                [] opcode = 15 -> Or(a \div 2, IF bit0 THEN 128 ELSE 0)
                [] OTHER -> Or(a \div 2, IF c THEN 128 ELSE 0)
        out == IF opcode \in {7, 23} THEN bit7 ELSE bit0
        f == set_C_flag(set_H_flag(set_N_flag(set_Z_flag(M.cpu.f, FALSE), FALSE), FALSE), out)
    IN Done([M EXCEPT !.cpu.a = na, !.cpu.f = f, !.cpu.pc = U16(@ + 1)], 4)

\* cases OPC_ADD2, OPC_ADC2, OPC_SUB2, OPC_SBC2, OPC_AND2, OPC_XOR2, OPC_OR2, OPC_CP2
OpAluImm(M, opcode, operand) ==
    LET a == M.cpu.a
        f0 == M.cpu.f
        c == IF Flag(M, FLAG_C) THEN 1 ELSE 0
        Arith(sub, cy, res) ==
            [a |-> res,
             f |-> eval_Z_flag(
                      set_N_flag(
                          eval_H_flag_c(eval_C_flag_c(f0, a, operand, sub, cy),
                                        a, operand, sub, cy),
                          sub),
                      res)]
        Logic(h, res) ==
            [a |-> res,
             f |-> eval_Z_flag(
                      set_N_flag(set_H_flag(set_C_flag(f0, FALSE), h), FALSE), res)]
        r == CASE opcode = 198 -> Arith(FALSE, 0, U8(a + operand))
               [] opcode = 206 -> Arith(FALSE, c, U8(a + operand + c))
               [] opcode = 214 -> Arith(TRUE, 0, U8(a - operand + 256))
               [] opcode = 222 -> Arith(TRUE, c, U8(a - (operand + c) + 512))
               [] opcode = 230 -> Logic(TRUE, And(a, operand))
               [] opcode = 238 -> Logic(FALSE, Xor(a, operand))
               [] opcode = 246 -> Logic(FALSE, Or(a, operand))
               [] OTHER ->
                    [a |-> a,
                     f |-> eval_Z_flag(
                              set_N_flag(
                                  eval_H_flag(eval_C_flag(f0, a, operand, TRUE),
                                              a, operand, TRUE),
                                  TRUE),
                              U8(a - operand + 256))]
    IN Done([M EXCEPT !.cpu.a = r.a, !.cpu.f = r.f, !.cpu.pc = U16(@ + 2)], 8)

\* cases OPC_INC1 (0x04, 0x14, 0x24) and OPC_DEC1 (0x05, 0x15, 0x25)
OpIncDec1(M, opcode) ==
    LET mux == And(opcode, 48) \div 16
        name == CASE mux = 0 -> "b" [] mux = 1 -> "d" [] OTHER -> "h"
        val == M.cpu[name]
        dec == And(opcode, 1) = 1
        res == IF dec THEN U8(val - 1 + 256) ELSE U8(val + 1)
        f == eval_Z_flag(set_N_flag(eval_H_flag(M.cpu.f, val, 1, dec), dec), res)
    IN Done([M EXCEPT !.cpu[name] = res, !.cpu.f = f, !.cpu.pc = U16(@ + 1)], 4)

\* case OPC_ADD16
OpAdd16(M, opcode) ==
    LET ss == And(opcode, 48) \div 16
        hl == GetReg16(M, 2)
        operand == IF ss = 3 THEN M.cpu.sp ELSE GetReg16(M, ss)
        f == eval_C_flag_16(eval_H_flag_16(set_N_flag(M.cpu.f, FALSE), hl, operand),
                            hl, operand)
        M1 == SetReg16(M, 2, U16(hl + operand))
    IN Done([M1 EXCEPT !.cpu.f = f, !.cpu.pc = U16(@ + 1)], 8)

\* cases OPC_ADDSP and OPC_LDHLS; the flag helpers take sp as a uint8_t
OpSpRel(M, opcode, r8) ==
    LET sp == M.cpu.sp
        f == eval_C_flag(
                eval_H_flag(set_N_flag(set_Z_flag(M.cpu.f, FALSE), FALSE),
                            LOW_BYTE(sp), r8, FALSE),
                LOW_BYTE(sp), r8, FALSE)
        res == U16(sp + S8(r8) + 65536)
        M1 == [M EXCEPT !.cpu.f = f, !.cpu.pc = U16(@ + 2)]
    IN IF opcode = 232
       THEN Done([M1 EXCEPT !.cpu.sp = res], 16)
       ELSE Done(SetReg16(M1, 2, res), 12)

\* cases OPC_PUSH and OPC_POP
OpPush(M, opcode) ==
    LET src == GetReg16(M, And(opcode, 48) \div 16)
        M1 == PushByte(PushByte(M, HIGH_BYTE(src)), LOW_BYTE(src))
    IN Done([M1 EXCEPT !.cpu.pc = U16(@ + 1)], 16)

\* a POP that keeps all eight bits of the low byte (used to test C7)
PopLowMaskNone(r) == 255

\* (dst == &cpu.af.af) ? 0xf0 : 0xff
PopLowMask(r) == IF r = 3 THEN 240 ELSE 255

OpPop(M, opcode) ==
    LET r == And(opcode, 48) \div 16
        lo == And(bus_get_memory(M, M.cpu.sp), PopLowMask(r))
        hi == bus_get_memory(M, U16(M.cpu.sp + 1))
        M1 == SetReg16(M, r, Or(U16(hi * 256), lo))
    IN Done([M1 EXCEPT !.cpu.sp = U16(M.cpu.sp + 2), !.cpu.pc = U16(@ + 1)], 12)

\* cases OPC_RETI and OPC_RET
OpRet(M, opcode) ==
    LET lo == bus_get_memory(M, M.cpu.sp)
        hi == bus_get_memory(M, U16(M.cpu.sp + 1))
    IN Done([M EXCEPT !.cpu.interrupts_enabled = IF opcode = 217 THEN TRUE ELSE @,
                      !.cpu.sp = U16(@ + 2),
                      !.cpu.pc = Or(hi * 256, lo)], 16)

\* opcodes whose opcode_types[] entry is OPC_NONE
OPC_NONE == {211, 219, 221, 227, 228, 235, 236, 237, 244, 252, 253}

(***************************************************************************)
(* cpu_handle_opcode.  ins = <<opcode, n1, n2>> are the bytes that         *)
(* bus_get_memory returns at pc, pc+1 and pc+2: the code of the cartridge, *)
(* which is an input of the program.                                       *)
(***************************************************************************)
cpu_handle_opcode(M0, ins) ==
    LET opcode == ins[1]
        n1 == ins[2]
        n2 == ins[3]
        M == [M0 EXCEPT !.cpu.last_addr = M0.cpu.pc, !.cpu.last_opcode = opcode]
    IN
    CASE opcode \in OPC_NONE -> Done(M, 0)
      [] opcode = 0 -> Done([M EXCEPT !.cpu.pc = U16(@ + 1)], 4)
      [] opcode = 16 ->
            Done(bus_stop_instr_cb(gbc_timer_diva_reset(
                    [M EXCEPT !.cpu.stopped = TRUE, !.cpu.pc = U16(@ + 2)])), 4)
      [] opcode = 118 ->
            Done([M EXCEPT !.cpu.pc = U16(@ + 1), !.cpu.halted = TRUE], 4)
      [] opcode = 251 ->
            Done([M EXCEPT !.cpu.interrupts_enabled = TRUE, !.cpu.pc = U16(@ + 1)], 4)
      [] opcode = 243 ->
            Done([M EXCEPT !.cpu.interrupts_enabled = FALSE, !.cpu.pc = U16(@ + 1)], 4)
      [] opcode = 39 -> OpDaa(M)
      [] opcode = 47 ->
            Done([M EXCEPT !.cpu.f = set_H_flag(set_N_flag(@, TRUE), TRUE),
                           !.cpu.a = 255 - @,
                           !.cpu.pc = U16(@ + 1)], 4)
      [] opcode = 55 ->
            Done([M EXCEPT !.cpu.f = set_C_flag(set_H_flag(set_N_flag(@, FALSE), FALSE), TRUE),
                           !.cpu.pc = U16(@ + 1)], 4)
      [] opcode = 63 ->
            Done([M EXCEPT !.cpu.f = set_C_flag(set_H_flag(set_N_flag(@, FALSE), FALSE),
                                                And(@, FLAG_C) = 0),
                           !.cpu.pc = U16(@ + 1)], 4)
      [] opcode \in {7, 15, 23, 31} -> OpRotA(M, opcode)
      [] opcode \in {198, 206, 214, 222, 230, 238, 246, 254} -> OpAluImm(M, opcode, n1)
      [] opcode \in {4, 5, 20, 21, 36, 37} -> OpIncDec1(M, opcode)
      [] opcode \in {9, 25, 41, 57} -> OpAdd16(M, opcode)
      [] opcode \in {232, 248} -> OpSpRel(M, opcode, n1)
      [] opcode \in {6, 14, 22, 30, 38, 46, 62} ->
            Done([M EXCEPT !.cpu[Reg8Name[And(opcode, 56) \div 8 + 1]] = n1,
                           !.cpu.pc = U16(@ + 2)], 8)
      \* case OPC_LDd82 (0x36) shares the body of OPC_LDHa8 (0xE0)
      [] opcode \in {54, 224} ->
            Done([bus_set_memory(M, 65280 + n1, M.cpu.a) EXCEPT !.cpu.pc = U16(@ + 2)], 12)
      [] opcode = 240 ->
            Done([M EXCEPT !.cpu.a = bus_get_memory(M, 65280 + n1),
                           !.cpu.pc = U16(@ + 2)], 12)
      \* case OPC_JRc: cond_lut = {NZ, Z, NC, C}
      [] opcode \in {32, 40, 48, 56} ->
            LET cond == And(opcode, 56) \div 8 - 4
                jump_taken ==
                    CASE cond = 0 -> And(M.cpu.f, FLAG_Z) = 0
                      [] cond = 1 -> And(M.cpu.f, FLAG_Z) # 0
                      [] cond = 2 -> And(M.cpu.f, FLAG_C) = 0
                      [] OTHER -> And(M.cpu.f, FLAG_C) # 0
            IN IF jump_taken
               THEN Done([M EXCEPT !.cpu.pc = U16(@ + S8(n1) + 2 + 65536)], 12)
               ELSE Done([M EXCEPT !.cpu.pc = U16(@ + 2)], 8)
      [] opcode = 24 ->
            Done([M EXCEPT !.cpu.pc = U16(@ + S8(n1) + 2 + 65536)], 12)
      [] opcode = 195 -> Done([M EXCEPT !.cpu.pc = Or(n2 * 256, n1)], 16)
      [] opcode \in {197, 213, 229, 245} -> OpPush(M, opcode)
      [] opcode \in {193, 209, 225, 241} -> OpPop(M, opcode)
      [] opcode \in {201, 217} -> OpRet(M, opcode)

(***************************************************************************)
(* cpu_handle_interrupt, with its statics isr_state and isr.               *)
(***************************************************************************)
\* a chain without the branch of the timer (used to test C35)
IsrSelectWithoutTimer(i) ==
    IF And(i, INTERRUPT_VBLANK) # 0 THEN <<ISR_VECTOR_VBLANK, INTERRUPT_VBLANK>>
    ELSE IF And(i, INTERRUPT_LCD) # 0 THEN <<ISR_VECTOR_LCD, INTERRUPT_LCD>>
    ELSE IF And(i, INTERRUPT_SERIAL) # 0 THEN <<ISR_VECTOR_SERIAL, INTERRUPT_SERIAL>>
    ELSE <<ISR_VECTOR_JOYPAD, INTERRUPT_JOYPAD>>

\* the if / else-if chain of isr_state_setup_pc_e: <<vector, flag to clear>>
IsrSelect(i) ==
    IF And(i, INTERRUPT_VBLANK) # 0 THEN <<ISR_VECTOR_VBLANK, INTERRUPT_VBLANK>>
    ELSE IF And(i, INTERRUPT_LCD) # 0 THEN <<ISR_VECTOR_LCD, INTERRUPT_LCD>>
    ELSE IF And(i, INTERRUPT_TIMER) # 0 THEN <<ISR_VECTOR_TIMER, INTERRUPT_TIMER>>
    ELSE IF And(i, INTERRUPT_SERIAL) # 0 THEN <<ISR_VECTOR_SERIAL, INTERRUPT_SERIAL>>
    ELSE <<ISR_VECTOR_JOYPAD, INTERRUPT_JOYPAD>>

\* a sample that ignores IE (used to test C4)
IsrSampleOfFlagsOnly(ie, iflags) == iflags

\* isr = (IE & IF)
IsrSample(ie, iflags) == And(ie, iflags)

cpu_handle_interrupt(M) ==
    IF M.isr_state = "isr_state_setup_pc_e"
    THEN LET IF_ == bus_get_memory(M, INTERRUPT_FLAGS_ADDRESS)
             M1 == PushByte(PushByte(M, HIGH_BYTE(M.cpu.pc)), LOW_BYTE(M.cpu.pc))
             sel == IsrSelect(M.isr)
             M2 == bus_set_memory([M1 EXCEPT !.cpu.pc = sel[1]],
                                  INTERRUPT_FLAGS_ADDRESS, And(IF_, 255 - sel[2]))
         IN Done([M2 EXCEPT !.cpu.interrupts_enabled = FALSE,
                            !.isr_state = "isr_state_idle_e"], 3)
    ELSE LET IE == bus_get_memory(M, INTERRUPT_ENABLE_ADDRESS)
             IF_ == bus_get_memory(M, INTERRUPT_FLAGS_ADDRESS)
             i == IsrSample(IE, IF_)
             M1 == [M EXCEPT !.isr = i]
         IN IF i # 0
            THEN IF M.cpu.interrupts_enabled
                 THEN Done([M1 EXCEPT !.cpu.halted = FALSE,
                                      !.isr_state = "isr_state_setup_pc_e"], 2)
                 ELSE Done([M1 EXCEPT !.cpu.halted = FALSE], 0)
            ELSE Done(M1, 0)

(***************************************************************************)
(* gbc_cpu_tick.  The running total cpu.cycle_cnt only feeds the trace     *)
(* output and is left out; the returned cycle_cnt is kept.  path names the *)
(* branch the call took: "stall" (cycle_cnt taken from stall_cnt),         *)
(* "interrupt" (cpu_handle_interrupt returned cycles), "opcode"            *)
(* (cpu_handle_opcode ran) or "halted".                                    *)
(***************************************************************************)
Took(r, path) == [m |-> r.m, cycle_cnt |-> r.cycle_cnt, path |-> path]

\* the second half of gbc_cpu_tick: r1 holds cycle_cnt after the stall count
\* and cpu_handle_interrupt, c0 the stall count found
CpuTickAfterInterrupt(r1, c0, ins) ==
    IF r1.cycle_cnt = 0
    THEN IF ~r1.m.cpu.halted
         THEN Took(cpu_handle_opcode(r1.m, ins), "opcode")
         ELSE Took(Done(r1.m, 1), "halted")
    ELSE Took(r1, IF c0 = 0 THEN "interrupt" ELSE "stall")

gbc_cpu_tick(M, ins) ==
    LET c0 == M.cpu.stall_cnt
        M1 == [M EXCEPT !.cpu.stall_cnt = 0]
    IN CpuTickAfterInterrupt(
            IF c0 = 0 THEN cpu_handle_interrupt(M1) ELSE Done(M1, c0), c0, ins)

\* gbc_cpu_init and the static initialisers of the other components, after
\* emulator_load_game of a CGB cartridge with an MBC5
ResetCpu ==
    [a |-> 17, f |-> 0, b |-> 0, c |-> 0, d |-> 0, e |-> 0, h |-> 0, l |-> 0,
     sp |-> 65534, pc |-> 256, stall_cnt |-> 0,
     interrupts_enabled |-> FALSE, stopped |-> FALSE, halted |-> FALSE,
     last_addr |-> 0, last_opcode |-> 0]

ResetBus ==
    [wram_banksel |-> 1, ext_ram_banksel |-> 0, rom_banksel |-> 1,
     ext_ram_enabled |-> FALSE, IF_ |-> 0, IE |-> 0, key1 |-> 0,
     dmg_mode |-> FALSE, cartridge_type |-> MBC5_TYPE,
     oam_dma |-> [addr |-> 0, offset |-> 0, prescaler |-> 0, active |-> FALSE],
     vram_dma |-> [src |-> 0, dst |-> 0, len |-> 0,
                   mode |-> "general_purpose_dma", active |-> FALSE]]

ResetTimer ==
    [DIVA |-> 0, DIVA_PRESC_CNT |-> 0, TIMA |-> 0, TIMA_PRESC_CNT |-> 0,
     TMA |-> 0, TAC |-> 248]

\* static apu_mem_t apu = {0}
ResetCh12 ==
    [running |-> FALSE, period |-> 0, period_sweep_step |-> 0,
     period_sweep_dir_subtract |-> FALSE, period_sweep_pace |-> 0,
     period_sweep_pace_counter |-> 0, period_sweep_pace_prescaler |-> 0,
     length_timer |-> 0, length_timer_prescaler |-> 0, length_enable |-> FALSE,
     volume |-> 0, envelope_dir_increase |-> FALSE, envelope_sweep_pace |-> 0,
     envelope_sweep_pace_counter |-> 0, envelope_sweep_pace_prescaler |-> 0]

ResetCh3 ==
    [running |-> FALSE, dac_en |-> FALSE, period |-> 0, length_timer |-> 0,
     length_timer_prescaler |-> 0, length_enable |-> FALSE]

ResetCh4 ==
    [running |-> FALSE, length_timer |-> 0, length_timer_prescaler |-> 0,
     length_enable |-> FALSE, volume |-> 0, envelope_dir_increase |-> FALSE,
     envelope_sweep_pace |-> 0, envelope_sweep_pace_counter |-> 0,
     envelope_sweep_pace_prescaler |-> 0]

\* static apu_mem_t apu = {0} and the channels after gbc_apu_init
ResetApu ==
    [ch1_sweep |-> 0, ch1_length_tim_dc |-> 0, ch1_vol_envelope |-> 0,
     ch1_period_low |-> 0, ch1_period_high_ctrl |-> 0,
     ch2_length_tim_dc |-> 0, ch2_vol_envelope |-> 0,
     ch2_period_low |-> 0, ch2_period_high_ctrl |-> 0,
     ch3_dac_en |-> 0, ch3_length_tim |-> 0, ch3_out_lvl |-> 0,
     ch3_period_low |-> 0, ch3_period_high_ctrl |-> 0,
     ch4_length_tim |-> 0, ch4_vol_envelope |-> 0, ch4_freq_rand |-> 0,
     master_vol_vin_pan |-> 0, sound_panning |-> 0, audio_master_control |-> 0,
     index |-> 0, last_div |-> 0, div_apu_512Hz |-> FALSE,
     ch1 |-> ResetCh12,
     ch2 |-> [ResetCh12 EXCEPT !.period_sweep_dir_subtract = TRUE],
     ch3 |-> ResetCh3, ch4 |-> ResetCh4]

\* static uint8_t JOYP = 0x3F; no key is held when the emulator starts
ResetJoypad == [JOYP |-> 63, buttons |-> 0]

\* ppu, ppu_state and pixel_fetcher are zero-initialised statics and
\* gbc_ppu_init sets the mode.  sprites is ppu.scobj.sprites[0 .. wr-1] (wr is
\* its length), rd is ppu.scobj.rd; bg_state and obj_state are
\* pixel_fetcher_state_t (0 = pfs_get_tile_0_e ... 7 = pfs_suspended_e);
\* bg_fill and obj_fill are the fill levels of the two pixel FIFOs; x and fwy
\* are pixel_fetcher.x and pixel_fetcher.wy; screen tells which of screen0 and
\* screen1 the PPU draws to.  The pixels themselves (tile data, FIFO entries,
\* screen contents) are not part of the model.
ResetPpu ==
    [lcdc |-> 0, stat |-> 0, scy |-> 0, scx |-> 0, ly |-> 0, lyc |-> 0,
     bgp |-> 0, obp0 |-> 0, obp1 |-> 0, wy |-> 0, wx |-> 0, vbk |-> 0,
     bcps_bgpi |-> 0, ocps_obpi |-> 0, opri |-> 0,
     bg_cram |-> EmptyMem, obj_cram |-> EmptyMem, mode |-> "mode2_oam_scan",
     line_dot_cnt |-> 0, lx |-> 0, x_discard_count |-> 0, pixel_delay |-> 0,
     obj_size |-> 0, sprites |-> <<>>, rd |-> 0, bg_state |-> 0, obj_state |-> 0,
     bg_fill |-> 0, obj_fill |-> 0, x |-> 0, fwy |-> 0, screen |-> 0]

(***************************************************************************)
(* The state machine.                                                      *)
(***************************************************************************)
\* the machine record of the current state; log collects the bus writes of
\* the step that is being taken
Cur ==
    [cpu |-> cpu, isr_state |-> isr_state, isr |-> isr, bus |-> bus,
     timer |-> timer, ppu |-> ppu, wram |-> wram, hram |-> hram,
     ext_ram |-> ext_ram, vram |-> vram, oam |-> oam, apu |-> apu,
     joypad |-> joypad, log |-> <<>>]

\* the machine record of the state a step leads to
CurAfter ==
    [cpu |-> cpu', isr_state |-> isr_state', isr |-> isr', bus |-> bus',
     timer |-> timer', ppu |-> ppu', wram |-> wram', hram |-> hram',
     ext_ram |-> ext_ram', vram |-> vram', oam |-> oam', apu |-> apu',
     joypad |-> joypad', log |-> <<>>]

Commit(M) ==
    /\ cpu' = M.cpu
    /\ isr_state' = M.isr_state
    /\ isr' = M.isr
    /\ bus' = M.bus
    /\ timer' = M.timer
    /\ ppu' = M.ppu
    /\ wram' = M.wram
    /\ hram' = M.hram
    /\ ext_ram' = M.ext_ram
    /\ vram' = M.vram
    /\ oam' = M.oam
    /\ apu' = M.apu
    /\ joypad' = M.joypad

\* the emulation thread before its first bus_tick
ResetSched == [running |-> TRUE, ticks |-> 0]

\* main.c: the emulation thread is not inside gbc_apu_tick, the main thread
\* is not inside render and the audio thread is not inside audio_callback;
\* static int gEmulatorDataCollected = 0; nobody holds gEmulatorDataMutex
\* (mutex is the thread that holds it, "none" when it is free).
\* i is the value of apu.stereo_data.index the emulation thread read last;
\* buf is the screen buffer render copies and rows the parts copied so far
ResetThreads ==
    [emu |-> [pc |-> "run", i |-> 0],
     render |-> [pc |-> "idle", buf |-> 0, rows |-> 0],
     audio |-> [pc |-> "idle"],
     collected |-> 0,
     mutex |-> "none"]

\* actor: who took the last step; kind: the branch of gbc_cpu_tick it took;
\* cycles: what gbc_cpu_tick returned; log: the bus writes of the step;
\* halted: cpu.halted before the step
\* diva, key1: timer.DIVA and bus.key1 before the step; trail: the component
\* ticks of the last bus_tick, in order; window: whether the APU was ticked,
\* for each of the last bus ticks taken at the current speed
\* dma: the last value accepted at 0xFF46 (-1: none yet), the calls of
\* bus_oam_dma_tick since then, whether no other store has been made since
\* then, and the numbers of writes to 0xFF46 and of other stores so far
NoDma == [page |-> -1, ticks |-> 0, clean |-> TRUE, writes |-> 0, stores |-> 0]

\* mbc: the last values written to 0x2000-0x2FFF (lo) and 0x3000-0x3FFF (hi);
\* before the first write they stand for bank 1
NoMbc == [lo |-> 1, hi |-> 0]

\* reg: the address and the value of the last single bus access (-1: none
\* yet; for a read the value returned), and the number of such writes so far
NoReg == [addr |-> -1, val |-> 0, writes |-> 0]

\* tim: the calls of gbc_timer_tick so far, the calls since the last one that
\* changed TIMA with TAC not written to a new value in between (-1: no such
\* call yet), and the number of writes to the timer registers so far
\* zeroed: the calls of gbc_timer_tick since DIV was last zeroed (-1: never)
NoTim == [ticks |-> 0, since |-> -1, writes |-> 0, zeroed |-> -1]

\* pp: the calls of gbc_ppu_tick so far, the program's stores to PPU
\* registers so far, the calls made in each mode since the line began
\* (dots[1] = mode 0 ... dots[4] = mode 3; after the last call of a line: the
\* counts of that whole line), LY during that line, and the buffer swaps and
\* the VBlank requests since LY last wrapped from 153 to 0 (after the call that
\* wraps LY: those of the whole frame)
NoPp == [ticks |-> 0, writes |-> 0, dots |-> <<0, 0, 0, 0>>, line |-> 0,
         swaps |-> 0, irqs |-> 0]

\* main.c: FILE *gSaveFile = NULL, long gSaveFileSize = 0.  size is
\* gSaveFileSize, pos the file position ftell returns; pc is the position in
\* emulator_load_save_file (0: not called; k: before the k-th call of
\* emulator_cb_read_from_save_file; Len(SaveBlobs) + 1: returned) and ret its
\* local ret
ResetSave == [size |-> 0, pos |-> 0, pc |-> 0, ret |-> 0]

\* sav: what the calls of emulator_cb_read_from_save_file returned, in order;
\* the number of restarts from a save file, and whether the last one was made
\* from a state between the two phases of an interrupt dispatch
NoSav == [reads |-> <<>>, loads |-> 0, between |-> FALSE]

\* thr: the calls of render and of audio_callback so far, the index of the
\* last sample store of gbc_apu_tick (-1: none yet), whether the memcpy of
\* the right channel in progress copies MAX_NUM_SAMPLES samples, whether
\* audio_callback has copied all MAX_NUM_SAMPLES samples of both channels
\* since the buffer last became full, and the number of times the emulation thread has set
\* the index of a full buffer back to 0 before that
NoThr == [renders |-> 0, calls |-> 0, stored |-> -1, right |-> FALSE, drained |-> TRUE,
          lost |-> 0, slept |-> FALSE]

\* snd: the program of stores to the sound registers and how far it has
\* run; for each channel the length value of its last trigger (-1: not
\* triggered) and the number of length ticks (the 256 Hz clocks of its
\* length timer) since then
NoSnd ==
    [prog |-> <<>>, pc |-> 0,
     init |-> [c \in {"ch1", "ch2", "ch3", "ch4"} |-> -1],
     len |-> [c \in {"ch1", "ch2", "ch3", "ch4"} |-> 0]]

\* the cartridge of SpecUndef (its undefined opcode, whether it enables
\* interrupts) and whether an undefined opcode has been fetched
NoUnd == [opcode |-> 0, ei |-> FALSE, stuck |-> FALSE]

NoHist ==
    [actor |-> "none", kind |-> "none", cycles |-> 0, log |-> <<>>,
     halted |-> FALSE, diva |-> 0, key1 |-> 0, trail |-> <<>>, window |-> <<>>,
     dma |-> NoDma, mbc |-> NoMbc, reg |-> NoReg, tim |-> NoTim, pp |-> NoPp,
     thr |-> NoThr, sav |-> NoSav, snd |-> NoSnd, und |-> NoUnd]

\* the history record of a step taken from the current state
Hist(actor, kind, cycles, log, trail, window) ==
    [actor |-> actor, kind |-> kind, cycles |-> cycles, log |-> log,
     halted |-> cpu.halted, diva |-> timer.DIVA, key1 |-> bus.key1,
     trail |-> trail, window |-> window, dma |-> hist.dma, mbc |-> hist.mbc,
     reg |-> hist.reg, tim |-> hist.tim, pp |-> hist.pp, thr |-> hist.thr,
     sav |-> hist.sav, snd |-> hist.snd, und |-> hist.und]

InitMachine ==
    /\ cpu = ResetCpu
    /\ isr_state = "isr_state_idle_e"
    /\ isr = 0
    /\ bus = ResetBus
    /\ timer = ResetTimer
    /\ ppu = ResetPpu
    /\ wram = EmptyMem
    /\ hram = EmptyMem
    /\ ext_ram = EmptyMem
    /\ vram = EmptyMem
    /\ oam = EmptyMem
    /\ apu = ResetApu
    /\ joypad = ResetJoypad
    /\ emulation_speed_cnt = 0
    /\ speed = 10
    /\ sched = ResetSched
    /\ threads = ResetThreads
    /\ save = ResetSave

(***************************************************************************)
(* Specification Spec: the CPU with interrupts.  The cartridge's program   *)
(* is any sequence of the instructions of Menu; the peripherals raise      *)
(* interrupt requests at any time.                                         *)
(***************************************************************************)
\* the code runs in 0x0100 .. 0x0100+PcSpan and in the first VecSpan+1 bytes
\* of each interrupt vector
PcSpan == 9

VecSpan == 1

\* the stack may grow down to 0xFFFE - StackSpan before a tick
StackSpan == 2

Vectors ==
    {ISR_VECTOR_VBLANK, ISR_VECTOR_LCD, ISR_VECTOR_TIMER, ISR_VECTOR_SERIAL,
     ISR_VECTOR_JOYPAD}

InWindow(c) ==
    /\ \/ c.pc \in 256 .. 256 + PcSpan
       \/ \E v \in Vectors : c.pc \in v .. v + VecSpan
    /\ c.sp \in 65534 - StackSpan .. 65534

\* NOP, EI, DI, HALT, RETI, LD A,0x84, LDH (0x0F),A, LDH (0xFF),A
Menu ==
    {<<0, 0, 0>>, <<251, 0, 0>>, <<243, 0, 0>>, <<118, 0, 0>>, <<217, 0, 0>>,
     <<62, 132, 0>>, <<224, 15, 0>>, <<224, 255, 0>>}

\* one call of gbc_cpu_tick, the fetched bytes taken from menu
\* the state after a call of gbc_cpu_tick that returned r
CpuTicked(r) ==
    /\ Commit(r.m)
    /\ hist' = Hist("cpu", r.path, r.cycle_cnt, r.m.log, <<>>, hist.window)

CpuTickFrom(menu) ==
    /\ InWindow(cpu)
    /\ \E ins \in menu : CpuTicked(gbc_cpu_tick(Cur, ins))
    /\ UNCHANGED <<emulation_speed_cnt, speed, sched, threads, save>>

CpuTick == CpuTickFrom(Menu)

\* BUS_SET_IRQ(IRQ_VBLANK) in gbc_ppu_tick and BUS_SET_IRQ(IRQ_TIMER) in
\* gbc_timer_tick
RaiseIrq ==
    /\ \E irq \in {INTERRUPT_VBLANK, INTERRUPT_TIMER} :
        LET M == BUS_SET_IRQ(Cur, irq) IN
        /\ Commit(M)
        /\ hist' = Hist("irq", "none", 0, M.log, <<>>, hist.window)
    /\ UNCHANGED <<emulation_speed_cnt, speed, sched, threads, save>>

Init == InitMachine /\ hist = NoHist

Next == CpuTick \/ RaiseIrq

Spec == Init /\ [][Next]_vars

\* a tick of the CPU begins / completes an interrupt dispatch
DispatchBegins ==
    isr_state = "isr_state_idle_e" /\ isr_state' = "isr_state_setup_pc_e"

DispatchCompletes ==
    isr_state = "isr_state_setup_pc_e" /\ isr_state' = "isr_state_idle_e"

\* the number of the lowest bit set in x, x # 0
RECURSIVE LowestBit(_)
LowestBit(x) == IF x % 2 = 1 THEN 0 ELSE 1 + LowestBit(x \div 2)

\* the last step was a CPU tick that executed the instruction opcode
Executed(opcode) ==
    hist.actor = "cpu" /\ hist.kind = "opcode" /\ cpu.last_opcode = opcode

\* C1: gbc_cpu_tick starts an interrupt dispatch only when IME is set and
\* (IE & IF & 0x1F) # 0; while IE & IF has only bits 5-7 set no tick begins a
\* dispatch, pushes PC or changes IF.
C1_DispatchOnlyLow5 ==
    [][/\ DispatchBegins =>
            cpu.interrupts_enabled /\ And(And(bus.IE, bus.IF_), 31) # 0
       /\ (And(bus.IE, bus.IF_) # 0 /\ And(And(bus.IE, bus.IF_), 31) = 0
           /\ isr_state = "isr_state_idle_e" /\ hist'.actor = "cpu") =>
            /\ isr_state' = "isr_state_idle_e"
            /\ hist'.kind # "interrupt"]_vars

\* C1, the case on which the code leaves the claim: a dispatch was begun and
\* completed for a sample of IE & IF that has none of the bits 0-4
C1_HighBitDispatched ==
    /\ hist.actor = "cpu"
    /\ hist.kind = "interrupt"
    /\ isr_state = "isr_state_idle_e"
    /\ isr # 0
    /\ And(isr, 31) = 0
    /\ cpu.pc = ISR_VECTOR_JOYPAD

\* C2: a completed dispatch services the lowest bit b of the sampled IE & IF:
\* old PC pushed (high byte at SP-1, low byte at SP-2), PC = 0x40 + 8*b, IME
\* cleared, exactly IF bit b cleared and every other IF bit preserved; the
\* two phases take 2 + 3 = 5 cycles.
C2_DispatchServicesLowestBit ==
    [][/\ DispatchBegins => hist'.cycles = 2
       /\ DispatchCompletes =>
            LET b == LowestBit(isr) IN
            /\ hist'.cycles = 3
            /\ Len(hist'.log) >= 2
            /\ hist'.log[1] = <<U16(cpu.sp + 65535), HIGH_BYTE(cpu.pc)>>
            /\ hist'.log[2] = <<U16(cpu.sp + 65534), LOW_BYTE(cpu.pc)>>
            /\ cpu'.sp = U16(cpu.sp + 65534)
            /\ cpu'.pc = 64 + 8 * b
            /\ ~cpu'.interrupts_enabled
            /\ bus'.IF_ = And(bus.IF_, 255 - 2 ^ b)]_vars

\* C2, the case on which the code leaves the claim: a dispatch completed whose
\* sample has its lowest bit above bit 4, and PC is the joypad vector
C2_VectorNotOfLowestBit ==
    /\ hist.actor = "cpu"
    /\ hist.kind = "interrupt"
    /\ hist.cycles = 3
    /\ isr # 0
    /\ LowestBit(isr) > 4
    /\ cpu.pc # 64 + 8 * LowestBit(isr)

\* C3: EI takes effect after the next instruction: the CPU tick that follows
\* an executed EI, with an enabled interrupt pending, executes an instruction
\* and begins no dispatch (EI was executed with the interrupt pending, so IME
\* was clear before it); DI clears IME at once; RETI restores PC from the
\* stack and sets IME in the same instruction.
C3_EiDelayDiReti ==
    [][/\ (Executed(251) /\ And(And(bus.IE, bus.IF_), 31) # 0
           /\ hist'.actor = "cpu") =>
            hist'.kind = "opcode" /\ isr_state' = "isr_state_idle_e"
       /\ (hist'.actor = "cpu" /\ hist'.kind = "opcode"
           /\ cpu'.last_opcode = 243) => ~cpu'.interrupts_enabled
       /\ (hist'.actor = "cpu" /\ hist'.kind = "opcode"
           /\ cpu'.last_opcode = 217) =>
            /\ cpu'.interrupts_enabled
            /\ cpu'.sp = U16(cpu.sp + 2)
            /\ cpu'.pc = bus_get_memory(Cur, U16(cpu.sp + 1)) * 256
                         + bus_get_memory(Cur, cpu.sp)]_vars

\* C3, the case on which the code leaves the claim: the tick right after an
\* executed EI began a dispatch
C3_DispatchRightAfterEi ==
    /\ hist.actor = "cpu"
    /\ hist.kind = "interrupt"
    /\ hist.cycles = 2
    /\ cpu.last_opcode = 251
    /\ cpu.last_addr + 1 = cpu.pc

(***************************************************************************)
(* Specification SpecHalt: HALT next to an HBlank VRAM-DMA.  The program   *)
(* is any sequence of the instructions of MenuHalt; the PPU reports HBlank *)
(* at any time.                                                            *)
(***************************************************************************)
\* EI, HALT, LD A,0x80, LDH (0xFF),A, LDH (0x54),A, LDH (0x55),A
MenuHalt ==
    {<<251, 0, 0>>, <<118, 0, 0>>,
     <<62, 128, 0>>, <<224, 255, 0>>, <<224, 84, 0>>, <<224, 85, 0>>}

CpuTickHalt == CpuTickFrom(MenuHalt)

\* bus_HBlank_cb(), called by gbc_ppu_tick at the end of mode 3
HBlankCb ==
    /\ bus.vram_dma.active
    /\ LET M == bus_HBlank_cb(Cur) IN
        /\ Commit(M)
        /\ hist' = Hist("hblank", "none", 0, M.log, <<>>, hist.window)
    /\ UNCHANGED <<emulation_speed_cnt, speed, sched, threads, save>>

NextHalt == CpuTickHalt \/ RaiseIrq \/ HBlankCb

SpecHalt == Init /\ [][NextHalt]_vars

\* a CPU tick taken while halted with IE & IF = 0 executes no instruction and
\* changes no register, PC or memory
HaltedQuiet ==
    (cpu.halted /\ And(bus.IE, bus.IF_) = 0 /\ hist'.actor = "cpu") =>
        /\ hist'.kind \in {"halted", "stall"}
        /\ hist'.log = <<>>
        /\ [cpu' EXCEPT !.stall_cnt = 0] = [cpu EXCEPT !.stall_cnt = 0]
        /\ UNCHANGED <<bus, timer, ppu, wram, hram, ext_ram, vram, oam, apu, joypad>>

\* what a CPU tick does that wakes the halted CPU: with IME set it begins a
\* dispatch; with IME clear it executes the instruction after HALT (which
\* alone can halt the CPU again), takes no vector and leaves IF alone
HaltWake ==
    IF cpu.interrupts_enabled
    THEN hist'.kind = "interrupt" /\ ~cpu'.halted
    ELSE /\ hist'.kind = "opcode"
         /\ cpu'.last_addr = cpu.pc
         /\ cpu'.halted => cpu'.last_opcode = 118
         /\ isr_state' = "isr_state_idle_e"
         /\ cpu'.pc \notin Vectors
         /\ bus'.IF_ = bus.IF_

\* C4: while halted with IE & IF = 0 a tick changes nothing; the first tick
\* that is not consumed by a DMA stall and finds IE & IF # 0 clears halted,
\* IME set or not, and with IME clear execution goes on after HALT without
\* a vector and without a change of IF.
C4_HaltResume ==
    [][/\ HaltedQuiet
       /\ (cpu.halted /\ And(bus.IE, bus.IF_) # 0 /\ cpu.stall_cnt = 0
           /\ hist'.actor = "cpu") => HaltWake]_vars

\* C4: a tick woke the halted CPU with IME clear and executed the
\* instruction after HALT
C4_WokeWithoutDispatch ==
    /\ hist.actor = "cpu"
    /\ hist.halted
    /\ hist.kind = "opcode"
    /\ ~cpu.halted
    /\ And(bus.IE, bus.IF_) # 0
    /\ isr_state = "isr_state_idle_e"

\* C4 as stated, for every tick: the first tick at which IE & IF # 0 wakes
\* the halted CPU
C4_HaltResumeOnAnyTick ==
    [][/\ HaltedQuiet
       /\ (cpu.halted /\ And(bus.IE, bus.IF_) # 0 /\ hist'.actor = "cpu") =>
            HaltWake]_vars

(***************************************************************************)
(* Specification SpecStop: STOP, KEY1 and the divider.  The program is any *)
(* sequence of the instructions of MenuStop; the timer is ticked at any    *)
(* time between two CPU ticks, which includes the schedule of bus_tick.    *)
(***************************************************************************)
\* the timer is ticked until DIV has counted to MaxDiva
MaxDiva == 1

\* STOP, LD A,0x84, LDH (0x4D),A
MenuStop == {<<16, 0, 0>>, <<62, 132, 0>>, <<224, 77, 0>>}

CpuTickStop == CpuTickFrom(MenuStop)

\* one call of gbc_timer_tick
TimerTick ==
    /\ timer.DIVA < MaxDiva
    /\ LET M == gbc_timer_tick(Cur) IN
        /\ Commit(M)
        /\ hist' = Hist("timer", "none", 0, M.log, <<>>, hist.window)
    /\ UNCHANGED <<emulation_speed_cnt, speed, sched, threads, save>>

NextStop == CpuTickStop \/ TimerTick

SpecStop == Init /\ [][NextStop]_vars

\* C5: executing STOP sets DIV to 0 and, iff KEY1 bit 0 was set, inverts
\* KEY1 bit 7 and clears bit 0, else leaves KEY1 unchanged; a bus write to
\* KEY1 changes only bit 0.
C5_StopAndKey1 ==
    [][/\ (hist'.actor = "cpu" /\ hist'.kind = "opcode"
           /\ cpu'.last_opcode = 16) =>
            /\ timer'.DIVA = 0
            /\ bus'.key1 = IF bus.key1 % 2 = 1
                           THEN IF bus.key1 >= 128
                                THEN bus.key1 - 129 ELSE bus.key1 + 127
                           ELSE bus.key1
       /\ (\E i \in 1 .. Len(hist'.log) : hist'.log[i][1] = KEY1) =>
            bus'.key1 \div 2 = bus.key1 \div 2]_vars

\* C5: STOP was executed with the switch armed and DIV not 0, and has
\* cleared DIV and switched the speed
C5_StopSwitchedSpeed ==
    /\ Executed(16)
    /\ hist.diva # 0
    /\ hist.key1 = KEY1_SWITCH_ARMED
    /\ timer.DIVA = 0
    /\ bus.key1 = KEY1_DOUBLE_SPEED

(***************************************************************************)
(* bus.c: bus_tick, and emulator.c: emulator_run.                          *)
(***************************************************************************)
\* gbc_ppu_tick as far as it reaches the bus.  Its dot and line counters are
\* not part of this model; ev tells whether this tick is the one that
\* requests the VBlank interrupt (ppu.c:798-802).
gbc_ppu_tick(M, ev) ==
    IF ev = "vblank" THEN BUS_SET_IRQ(M, INTERRUPT_VBLANK) ELSE M

\* the body of the for loop of bus_tick; T.m is the machine, T.trail the
\* component ticks so far, T.paths the branches the CPU ticks took
\* c is what gbc_cpu_tick returned
BusGroupAfterCpu(T, c) ==
    [m |-> bus_oam_dma_tick(gbc_timer_tick(c.m)),
     trail |-> T.trail \o <<"cpu", "timer", "oam_dma">>,
     paths |-> Append(T.paths, c.path),
     cycles |-> c.cycle_cnt]

BusGroup(T, ins) == BusGroupAfterCpu(T, gbc_cpu_tick(T.m, ins))

\* an APU without throttle (used to test C8)
ApuDueAlways(cnt) == TRUE

\* the APU is ticked while the throttle counter is below 10
ApuDue(cnt) == cnt < 10

\* fetch = the bytes the first and the second gbc_cpu_tick fetch, cnt =
\* emulation_speed_cnt, spd = emulator_get_speed().
\* the rest of bus_tick after the loop: T1 and T2 are the states after the
\* first and the last pass of the loop
BusTickAfterLoop(T1, T2, ev, cnt, spd) ==
    LET due == ApuDue(cnt)
        cnt1 == U8(cnt + 1)
    IN [m |-> IF due THEN gbc_apu_tick(gbc_ppu_tick(T2.m, ev))
              ELSE gbc_ppu_tick(T2.m, ev),
        first |-> T1.m,
        trail |-> T2.trail \o <<"ppu">> \o (IF due THEN <<"apu">> ELSE <<>>),
        paths |-> T2.paths,
        cycles |-> T2.cycles,
        apu |-> due,
        cnt |-> IF cnt1 >= spd THEN 0 ELSE cnt1]

\* the second pass of the loop, made when ticks = 2
BusTickSecondPass(M, T1, fetch, ev, cnt, spd) ==
    BusTickAfterLoop(T1,
                     IF And(M.bus.key1, KEY1_DOUBLE_SPEED) # 0
                     THEN BusGroup(T1, fetch[2]) ELSE T1,
                     ev, cnt, spd)

bus_tick(M, fetch, ev, cnt, spd) ==
    BusTickSecondPass(
        M,
        BusGroup([m |-> M, trail |-> <<>>, paths |-> <<>>, cycles |-> 0], fetch[1]),
        fetch, ev, cnt, spd)

\* the last n elements of s
LastN(s, n) == IF Len(s) <= n THEN s ELSE SubSeq(s, Len(s) - n + 1, Len(s))

(***************************************************************************)
(* The cartridges of the specifications that run the emulation thread.     *)
(***************************************************************************)
\* NOP, STOP, LDH (0x0F),A
MenuRun == {<<0, 0, 0>>, <<16, 0, 0>>, <<224, 15, 0>>}

FetchRun(c) == IF InWindow(c) THEN MenuRun ELSE {}

\* the emulation thread takes at most MaxBusTicks bus ticks
MaxBusTicks == 28

\* the cartridge of SpecBus holds NopsBeforeStop NOPs before STOP
NopsBeforeStop == 22

\* the cartridge: LD A,0x05; LDH (0x07),A (enables the timer); LDH (0x4D),A
\* (arms the speed switch); NOPs; STOP; NOPs up to MaxBusTicks more
CartBus(c) ==
    LET stop == 262 + NopsBeforeStop IN
    CASE c.pc = 256 -> {<<62, 5, 0>>}
      [] c.pc = 258 -> {<<224, 7, 0>>}
      [] c.pc = 260 -> {<<224, 77, 0>>}
      [] c.pc \in 262 .. stop - 1 -> {<<0, 0, 0>>}
      [] c.pc = stop -> {<<16, 0, 0>>}
      [] c.pc \in stop + 2 .. stop + 2 + MaxBusTicks -> {<<0, 0, 0>>}
      [] OTHER -> {}

\* the program of SpecIsr stops after IsrBound timer interrupts
IsrBound == 3

\* the cartridge of SpecIsr, after src/gb/isr_test.c: TMA = TIMA = 0xFE, IE = 0x04,
\* TAC = 0x05 (enabled, 16 ticks), A = 0, EI, then CP IsrBound; JR NZ,-4; STOP;
\* the timer handler at 0x0050 is ADD A,1; RETI
CartIsr(c) ==
    CASE c.pc = 256 -> {<<62, 254, 0>>}
      [] c.pc = 258 -> {<<224, 6, 0>>}
      [] c.pc = 260 -> {<<224, 5, 0>>}
      [] c.pc = 262 -> {<<62, 4, 0>>}
      [] c.pc = 264 -> {<<224, 255, 0>>}
      [] c.pc = 266 -> {<<62, 5, 0>>}
      [] c.pc = 268 -> {<<224, 7, 0>>}
      [] c.pc = 270 -> {<<62, 0, 0>>}
      [] c.pc = 272 -> {<<251, 0, 0>>}
      [] c.pc = 273 -> {<<254, IsrBound, 0>>}
      [] c.pc = 275 -> {<<32, 252, 0>>}
      [] c.pc = 277 -> {<<16, 0, 0>>}
      [] c.pc = ISR_VECTOR_TIMER -> {<<198, 1, 0>>}
      [] c.pc = ISR_VECTOR_TIMER + 2 -> {<<217, 0, 0>>}
      [] OTHER -> {}

\* the byte triples the cartridge cart may hold at c.pc
Fetch(cart, c) ==
    IF cart = "menu" THEN FetchRun(c)
    ELSE IF cart = "isr" THEN CartIsr(c) ELSE CartBus(c)

\* the state after a call of bus_tick that returned r
BusTicked(r) ==
    /\ Commit(r.m)
    /\ emulation_speed_cnt' = r.cnt
    /\ sched' = [running |-> ~r.m.cpu.stopped, ticks |-> sched.ticks + 1]
    /\ threads' = threads
    /\ save' = save
    /\ hist' = Hist("emu",
                    IF \E i \in 1 .. Len(r.paths) : r.paths[i] = "opcode"
                    THEN "opcode" ELSE r.paths[1],
                    r.cycles, r.m.log, r.trail,
                    LastN(Append(hist.window,
                                 [apu |-> r.apu, cnt |-> emulation_speed_cnt]),
                          speed))

\* what the second gbc_cpu_tick of a bus_tick may fetch
SecondFetch(cart, ins1) ==
    IF And(bus.key1, KEY1_DOUBLE_SPEED) # 0
    THEN Fetch(cart,
               BusGroup([m |-> Cur, trail |-> <<>>, paths |-> <<>>, cycles |-> 0],
                        ins1).m.cpu)
    ELSE {ins1}

\* one iteration of the loop of emulator_run: bus_tick, then the loop is
\* left when gbc_cpu_stopped().  No tick is taken where the cartridge holds
\* no code.
EmulatorRunFrom(cart, events, maxTicks) ==
    /\ sched.running
    /\ sched.ticks < maxTicks
    /\ \E ins1 \in Fetch(cart, cpu), ev \in events :
       \E ins2 \in SecondFetch(cart, ins1) :
        BusTicked(bus_tick(Cur, <<ins1, ins2>>, ev, emulation_speed_cnt, speed))
    /\ UNCHANGED speed

\* the program is started again with the save file written after the
\* emulation thread has returned (main.c:601-622): cpu, bus, ppu and timer
\* are read back, the statics of cpu_handle_interrupt and bus_tick and
\* gEmulatorSpeed start from their initialisers
LoadSaveState ==
    /\ ~sched.running
    /\ isr_state' = "isr_state_idle_e"
    /\ isr' = 0
    /\ emulation_speed_cnt' = 0
    /\ speed' = 10
    /\ sched' = [sched EXCEPT !.running = TRUE]
    /\ hist' = Hist("load", "none", 0, <<>>, <<>>, <<>>)
    /\ UNCHANGED <<cpu, bus, timer, ppu, wram, hram, ext_ram, vram, oam, apu, joypad,
                   threads, save>>

(***************************************************************************)
(* Specification SpecRun: the emulation thread and STOP.  The program is   *)
(* any sequence of the instructions of MenuRun.                            *)
(***************************************************************************)
\* the emulation thread takes at most MaxRunTicks bus ticks
MaxRunTicks == 5

EmulatorRun == EmulatorRunFrom("menu", {"none", "vblank"}, MaxRunTicks)

NextRun == EmulatorRun \/ LoadSaveState

SpecRun == Init /\ [][NextRun]_vars

\* C6: after STOP the CPU is stopped: it executes no instruction until a
\* joypad interrupt is requested, and once one is requested it resumes, so a
\* stopped CPU with the joypad interrupt requested still has the emulation
\* thread running to execute instructions.
C6_StoppedUntilJoypad ==
    [][/\ (cpu.stopped /\ And(bus.IF_, INTERRUPT_JOYPAD) = 0
           /\ hist'.actor = "emu") => hist'.kind # "opcode"
       /\ (cpu'.stopped /\ And(bus'.IF_, INTERRUPT_JOYPAD) # 0) =>
            sched'.running]_vars

\* C6, the case on which the code leaves the claim: the CPU is stopped, the
\* joypad interrupt is requested and the emulation thread has returned
C6_StoppedForGood ==
    /\ cpu.stopped
    /\ And(bus.IF_, INTERRUPT_JOYPAD) # 0
    /\ ~sched.running
    /\ hist.actor = "emu"
    /\ cpu.last_opcode = 16

(***************************************************************************)
(* Specification SpecBus: the tick driver.  The program is any sequence of *)
(* the instructions of MenuBus; the user changes the speed in the menu at  *)
(* any time.                                                               *)
(***************************************************************************)
\* the user raises the speed to MaxSpeed at most (the menu allows 20)
MaxSpeed == 11

EmulatorRunBus == EmulatorRunFrom("cart", {"none", "vblank"}, MaxBusTicks)

\* the keys SDLK_LEFT and SDLK_RIGHT on menu line 1 (main.c:390-399)
SpeedKey ==
    /\ \/ 10 < speed /\ speed' = speed - 1
       \/ 20 > speed /\ speed < MaxSpeed /\ speed' = speed + 1
    /\ hist' = Hist("key", "none", 0, <<>>, <<>>, <<>>)
    /\ UNCHANGED <<cpu, isr_state, isr, bus, timer, ppu, wram, hram, ext_ram,
                   vram, oam, apu, joypad, emulation_speed_cnt, sched, threads, save>>

NextBus == EmulatorRunBus \/ SpeedKey \/ LoadSaveState

SpecBus == Init /\ [][NextBus]_vars

\* the component ticks of a bus_tick taken from the current state
TrailDue ==
    LET group == <<"cpu", "timer", "oam_dma">> IN
    (IF bus.key1 >= 128 THEN group \o group ELSE group) \o <<"ppu">>
        \o (IF emulation_speed_cnt < 10 THEN <<"apu">> ELSE <<>>)

\* the number of bus ticks of window w that ticked the APU
ApuTicks(w) == Cardinality({i \in 1 .. Len(w) : w[i].apu})

\* a CPU write that enables the timer is seen by the timer tick of the same
\* bus_tick: the prescaler of TIMA has counted
WriteSeenByTimer ==
    (/\ timer.TAC % 8 < 4
     /\ \E i \in 1 .. Len(hist'.log) :
            hist'.log[i][1] = TIMER_ADDR_TAC /\ hist'.log[i][2] % 8 >= 4) =>
        timer'.TIMA_PRESC_CNT >= 1

\* C8: every bus_tick runs CPU -> Timer -> OAM-DMA once (KEY1 bit 7 clear)
\* or twice (set), then the PPU once, then the APU iff the throttle counter
\* is below 10; at a constant speed s the APU is ticked exactly 10 times in
\* every s consecutive bus ticks that begin with the throttle counter below
\* s (every such tick when s = 10); a CPU write is seen by the timer tick of
\* the same bus_tick.
C8_BusTickOrderAndThrottle ==
    [][hist'.actor = "emu" =>
        /\ hist'.trail = TrailDue
        /\ (Len(hist'.window) = speed /\ hist'.window[1].cnt < speed) =>
                ApuTicks(hist'.window) = 10
        /\ (speed = 10 /\ emulation_speed_cnt < 10) => hist'.window[Len(hist'.window)].apu
        /\ WriteSeenByTimer]_vars

\* C8: eleven bus ticks at speed 11, begun with the counter below 11, of
\* which one did not tick the APU
C8_ThrottledWindow ==
    /\ hist.actor = "emu"
    /\ speed = 11
    /\ Len(hist.window) = 11
    /\ hist.window[1].cnt < 11
    /\ ~hist.window[11].apu

\* C8 as stated, for every s consecutive bus ticks at a constant speed s
C8_ThrottleInEveryWindow ==
    [][hist'.actor = "emu" =>
        /\ hist'.trail = TrailDue
        /\ Len(hist'.window) = speed => ApuTicks(hist'.window) = 10
        /\ speed = 10 => hist'.window[Len(hist'.window)].apu
        /\ WriteSeenByTimer]_vars

(***************************************************************************)
(* Specification SpecFlags: the CPU running the instructions that write    *)
(* register F, with interrupt dispatches in between.                       *)
(***************************************************************************)
\* LD C,0x1F, PUSH BC, POP AF, PUSH AF, POP BC, ADD A,0x0F, SBC A,0x01, DAA,
\* RLCA, CCF, CPL, INC B, ADD HL,BC, LD HL,SP+0x0F, EI, LDH (0xFF),A
MenuFlags ==
    {<<14, 31, 0>>, <<197, 0, 0>>, <<241, 0, 0>>, <<245, 0, 0>>, <<193, 0, 0>>,
     <<198, 15, 0>>, <<222, 1, 0>>, <<39, 0, 0>>, <<7, 0, 0>>, <<63, 0, 0>>,
     <<47, 0, 0>>, <<4, 0, 0>>, <<9, 0, 0>>, <<248, 15, 0>>, <<251, 0, 0>>,
     <<224, 255, 0>>}

\* the code runs in 0x0100 .. 0x0100+FlagSpan and at the interrupt vectors
FlagSpan == 4

CpuTickFlags ==
    /\ cpu.pc <= 256 + FlagSpan
    /\ CpuTickFrom(MenuFlags)

NextFlags == CpuTickFlags \/ RaiseIrq

SpecFlags == Init /\ [][NextFlags]_vars

\* C7: from the reset state, after any sequence of instructions and interrupt
\* dispatches the low nibble of register F is 0.
C7_FlagLowNibbleZero == cpu.f % 16 = 0

\* POP AF has just popped a low byte whose low nibble is not 0, and flags
\* were set in the popped F
C7_PopAfMasked ==
    /\ Executed(241)
    /\ bus_get_memory(Cur, U16(cpu.sp - 2 + 65536)) % 16 # 0
    /\ cpu.f = And(bus_get_memory(Cur, U16(cpu.sp - 2 + 65536)), 240)
    /\ cpu.f # 0

(***************************************************************************)
(* Specification SpecOam: the OAM-DMA.  The program writes to 0xFF46 and   *)
(* stores bytes to the source page and to the OAM; bus_tick calls          *)
(* bus_oam_dma_tick for as long as the emulation runs.                     *)
(***************************************************************************)
\* bus_oam_dma_tick is followed for MaxOamTicks calls after a write to 0xFF46
MaxOamTicks == 642

\* the program writes to 0xFF46 at most MaxDmaWrites times
MaxDmaWrites == 2

\* and makes at most MaxStores other stores
MaxStores == 1

\* the values written to 0xFF46: 0xC0, 0xDF, 0xE0
OamPages == {192, 223, 224}

\* the cells stored to: 0xC09F (the last source byte of page 0xC0) and
\* 0xFE50 (OAM)
StoreCells == {49311, 65104}

\* bus_set_memory(DMA, P), the store of an instruction such as LDH (0x46),A
OamDmaWrite ==
    /\ hist.dma.writes < MaxDmaWrites
    /\ \E P \in OamPages :
        LET M == bus_set_memory(Cur, DMA, P) IN
        /\ Commit(M)
        /\ hist' = [Hist("dma_write", "none", 0, M.log, <<>>, hist.window)
                        EXCEPT !.dma = IF P <= 223
                                       THEN [page |-> P, ticks |-> 0, clean |-> TRUE,
                                             writes |-> hist.dma.writes + 1,
                                             stores |-> hist.dma.stores]
                                       ELSE [@ EXCEPT !.writes = @ + 1]]
    /\ UNCHANGED <<emulation_speed_cnt, speed, sched, threads, save>>

\* bus_set_memory(addr, 0xA5), the store of an instruction such as LD (HL),A
StoreByte ==
    /\ hist.dma.stores < MaxStores
    /\ \E addr \in StoreCells :
        LET M == bus_set_memory(Cur, addr, 165) IN
        /\ Commit(M)
        /\ hist' = [Hist("store", "none", 0, M.log, <<>>, hist.window)
                        EXCEPT !.dma.clean = FALSE, !.dma.stores = @ + 1]
    /\ UNCHANGED <<emulation_speed_cnt, speed, sched, threads, save>>

\* the call of bus_oam_dma_tick in bus_tick
OamDmaTick ==
    /\ hist.dma.ticks < MaxOamTicks
    /\ LET M == bus_oam_dma_tick(Cur) IN
        /\ Commit(M)
        /\ hist' = [Hist("oam", "none", 0, M.log, <<>>, hist.window)
                        EXCEPT !.dma.ticks = IF hist.dma.page >= 0 THEN @ + 1 ELSE @]
    /\ UNCHANGED <<emulation_speed_cnt, speed, sched, threads, save>>

NextOam == OamDmaWrite \/ StoreByte \/ OamDmaTick

SpecOam == Init /\ [][NextOam]_vars /\ WF_vars(OamDmaTick)

\* the step is a call of bus_oam_dma_tick after a value was accepted at
\* 0xFF46; hist'.dma.ticks is its number
OamTickStep ==
    /\ hist'.actor = "oam"
    /\ hist.dma.page >= 0
    /\ hist'.dma.ticks = hist.dma.ticks + 1

OamBytes == 0 .. DMA_CP_LEN - 1

\* what the bus returns at the k-th source byte of page P
OamSource(M, P, k) == bus_get_memory(M, U16(P * 256 + k))

\* the step is a write of P to 0xFF46
OamWriteOf(P) == hist'.actor = "dma_write" /\ hist'.log = <<<<DMA, P>>>>

MaxVdmaWrites == 5

\* <<address, value>>: source low 0x00, source high 0x80 and 0xC0,
\* destination low 0x00, destination high 0x8A, length/mode/start 0x00 and
\* 0x80; stores to 0x8000, 0xC000, 0xC00F, 0xC010 and 0x8A10
VdmaWrites ==
    {<<65361, 0>>, <<65362, 128>>, <<65362, 192>>, <<65363, 0>>, <<65364, 138>>,
     <<65365, 0>>, <<65365, 128>>,
     <<32768, 165>>, <<49152, 165>>, <<49167, 90>>, <<49168, 119>>, <<35344, 51>>}

\* bus_set_memory(addr, val), the store of an instruction such as LDH (n),A
\* or LD (HL),A
VdmaWrite ==
    /\ hist.dma.stores < MaxVdmaWrites
    /\ \E w \in VdmaWrites :
        LET M == bus_set_memory(Cur, w[1], w[2]) IN
        /\ Commit(M)
        /\ hist' = [Hist("vdma_write", "none", 0, M.log, <<>>, hist.window)
                        EXCEPT !.dma.stores = @ + 1]
    /\ UNCHANGED <<emulation_speed_cnt, speed, sched, threads, save>>

NextVdma == VdmaWrite \/ HBlankCb

SpecVdma == Init /\ [][NextVdma]_vars

\* the step is the write of 0x00 to 0xFF55 with the given source, and
\* destination 0x8A00, configured, in CGB mode
VdmaGo(src) ==
    /\ hist'.actor = "vdma_write"
    /\ hist'.log # <<>>
    /\ hist'.log[1] = <<65365, 0>>
    /\ ~bus.dmg_mode
    /\ bus.vram_dma.src = src
    /\ bus.vram_dma.dst = 35328

MemRow(m, p) == IF p \in DOMAIN m THEN m[p] ELSE ZeroRow

\* the 16 bytes from src are in VRAM at 0x8A00-0x8A0F after the step, no
\* other cell of the VRAM has changed, and a CPU stall is requested
VdmaCopied16(src) ==
    LET base == And(ppu.vbk, 1) * 8192 + And(35328, 8191) IN
    /\ \A i \in 0 .. 15 :
            MemGet(vram', base + i) = bus_get_memory(Cur, U16(src + i))
    /\ \A p \in (DOMAIN vram \cup DOMAIN vram') \ {base \div 16} :
            MemRow(vram', p) = MemRow(vram, p)
    /\ Len(hist'.log) = 17
    /\ cpu'.stall_cnt > 0
    /\ UNCHANGED <<wram, ext_ram, oam, hram>>

\* C10 as stated: in CGB mode, with source 0x8000 and destination 0x8A00
\* configured, writing 0x00 to 0xFF55 copies exactly 16 bytes from
\* 0x8000-0x800F to 0x8A00-0x8A0F and requests a CPU stall.
C10_VdmaFromVram == [][VdmaGo(32768) => VdmaCopied16(32768)]_vars

\* C10: in CGB mode, with source 0xC000 and destination 0x8A00 configured
\* and no HBlank transfer active, writing 0x00 to 0xFF55 copies exactly 16
\* bytes from 0xC000-0xC00F to 0x8A00-0x8A0F and requests a CPU stall (of 8
\* cycles at single speed).
C10_VdmaFromWram ==
    [][(VdmaGo(49152) /\ ~(bus.vram_dma.active /\ bus.vram_dma.mode = "HBlank_dma")) =>
            /\ VdmaCopied16(49152)
            /\ cpu'.stall_cnt = VRAM_DMA_CP_CYCLES
            /\ ~bus'.vram_dma.active]_vars

\* the write of 0x00 to 0xFF55 has copied 0xA5 .. 0x5A from 0xC000-0xC00F
\* to 0x8A00-0x8A0F and has requested the stall
C10_WramBlockCopied ==
    /\ hist.actor = "vdma_write"
    /\ Len(hist.log) = 17
    /\ hist.log[1] = <<65365, 0>>
    /\ bus.vram_dma.src = 49152
    /\ bus.vram_dma.dst = 35328
    /\ MemGet(vram, 2560) = 165
    /\ MemGet(vram, 2575) = 90
    /\ cpu.stall_cnt = VRAM_DMA_CP_CYCLES

\* C11: a bus read of 0xFF55 returns (remaining/16 - 1) | (active ? 0 : 0x80);
\* it returns 0xFF after a transfer has completed and a value with bit 7
\* clear while an HBlank transfer is active.
C11_Ff55ReadsRemaining ==
    /\ bus_get_memory(Cur, 65365) =
            Or(U8((bus.vram_dma.len \div 16) - 1 + 256),
               IF bus.vram_dma.active THEN 0 ELSE 128)
    /\ (~bus.vram_dma.active /\ bus.vram_dma.len = 0) => bus_get_memory(Cur, 65365) = 255
    /\ (bus.vram_dma.active /\ bus.vram_dma.mode = "HBlank_dma") =>
            And(bus_get_memory(Cur, 65365), 128) = 0

\* the only block of an HBlank transfer has been copied, the transfer is
\* complete, and 0xFF55 reads 0
C11_ReadsZeroWhenComplete ==
    /\ hist.actor = "hblank"
    /\ Len(hist.log) = 16
    /\ ~bus.vram_dma.active
    /\ bus.vram_dma.len = 0
    /\ bus_get_memory(Cur, 65365) = 0

(***************************************************************************)
(* Specification SpecMbc: the program writes to the ROM area of an MBC5    *)
(* cartridge.                                                              *)
(***************************************************************************)
\* the addresses written: the first and the last of each register range of
\* the MBC5, and two of 0x6000-0x7FFF
MbcAddrs == {0, 8191, 8192, 12287, 12288, 16383, 16384, 24575, 24576, 32767}

\* the values written
MbcVals == {0, 1, 2, 10, 255}

\* the addresses read: in the fixed bank and in the switched bank
RomReads == {0, 256, 16383, 16384, 16385, 32767}

\* bus_set_memory(addr, val) with addr in the ROM area
MbcWrite ==
    \E addr \in MbcAddrs, val \in MbcVals :
        LET M == bus_set_memory(Cur, addr, val) IN
        /\ Commit(M)
        /\ hist' = [Hist("mbc_write", "none", 0, M.log, <<>>, hist.window)
                        EXCEPT !.mbc.lo = IF addr \in 8192 .. 12287 THEN val ELSE @,
                               !.mbc.hi = IF addr \in 12288 .. 16383 THEN val ELSE @]
        /\ UNCHANGED <<emulation_speed_cnt, speed, sched, threads, save>>

NextMbc == MbcWrite

SpecMbc == Init /\ [][NextMbc]_vars

\* the 9-bit bank number the last writes select
MbcBank == And(hist.mbc.hi, 1) * 256 + hist.mbc.lo

\* C12: for an MBC5 cartridge and every sequence of writes to 0x0000-0x7FFF,
\* a read at 0x0000-0x3FFF returns the byte of ROM bank 0, a read at
\* 0x4000-0x7FFF the byte of the bank (last value written to 0x3000-0x3FFF
\* & 1) << 8 | last value written to 0x2000-0x2FFF, initially bank 1, bank 0
\* included; such a write changes nothing but the bank controller.
C12_RomBanking ==
    /\ [](\A a \in RomReads :
            bus_get_memory(Cur, a) =
                IF a < 16384 THEN Rom(0, a) ELSE Rom(MbcBank, a - 16384))
    /\ [][hist'.actor = "mbc_write" =>
            /\ UNCHANGED <<cpu, isr_state, isr, timer, ppu, wram, hram, ext_ram, vram, oam,
                           apu, joypad>>
            /\ [bus' EXCEPT !.rom_banksel = 0, !.ext_ram_banksel = 0,
                            !.ext_ram_enabled = FALSE]
                    = [bus EXCEPT !.rom_banksel = 0, !.ext_ram_banksel = 0,
                                  !.ext_ram_enabled = FALSE]]_vars

\* bank 0x1FF has been selected by writes of 0xFF to 0x2FFF and 0x3FFF, and
\* its byte, which differs from the bytes of banks 0, 1 and 0xFF, is read
C12_Bank511Read ==
    /\ hist.actor = "mbc_write"
    /\ hist.mbc = [lo |-> 255, hi |-> 255]
    /\ bus.rom_banksel = 511
    /\ bus_get_memory(Cur, 16384) = Rom(511, 0)
    /\ Rom(511, 0) \notin {Rom(0, 0), Rom(1, 0), Rom(255, 0)}
(***************************************************************************)
(* Specification SpecRegs: the program stores to and loads from the        *)
(* memory-mapped registers and the reserved region 0xFEA0-0xFEFF, one bus  *)
(* access per step (bus_set_memory / bus_get_memory as an LD instruction   *)
(* calls them).                                                            *)
(***************************************************************************)
\* at most MaxRegWrites stores are made
MaxRegWrites == 2

\* first, an inner and the last address of the reserved region
Forbidden == {65184, 65200, 65279}

RwRegs ==
    {SCY, SCX, LYC, BGP, OBP0, OBP1, WY, WX, BCPS_BGPI, OCPS_OBPI,
     TIMER_ADDR_TIMA, TIMER_ADDR_TMA, TIMER_ADDR_TAC,
     INTERRUPT_FLAGS_ADDRESS, INTERRUPT_ENABLE_ADDRESS,
     APU_ADDR_MASTER_VOL_VIN_PAN, APU_ADDR_SOUND_PANNING, STAT, VBK}

RegVals == {0, 90, 255}

\* the program-visible state: everything but the history
machine == <<cpu, isr_state, isr, bus, timer, ppu, wram, hram, ext_ram, vram, oam,
             apu, joypad, emulation_speed_cnt, speed, sched, threads, save>>

\* a store instruction: bus_set_memory(addr, val)
RegWrite ==
    \E addr \in RwRegs \cup Forbidden, val \in RegVals :
        LET M == bus_set_memory(Cur, addr, val) IN
        /\ hist.reg.writes < MaxRegWrites
        /\ Commit(M)
        /\ hist' = [Hist("reg_write", "none", 0, M.log, <<>>, hist.window)
                        EXCEPT !.reg = [addr |-> addr, val |-> val, writes |-> @.writes + 1]]
        /\ UNCHANGED <<emulation_speed_cnt, speed, sched, threads, save>>

\* a load instruction: bus_get_memory(addr); a load from 0xFF00 runs
\* gbc_joypad_get_memory, which stores what it returns in JOYP
RegRead ==
    \E addr \in RwRegs \cup Forbidden \cup {JOYPAD_ADDRESS} :
        LET M == IF addr = JOYPAD_ADDRESS THEN gbc_joypad_get_memory(Cur, addr) ELSE Cur IN
        /\ Commit(M)
        /\ hist' = [Hist("reg_read", "none", 0, <<>>, <<>>, hist.window)
                        EXCEPT !.reg = [addr |-> addr, val |-> bus_get_memory(Cur, addr),
                                        writes |-> @.writes]]
        /\ UNCHANGED <<emulation_speed_cnt, speed, sched, threads, save>>

NextRegs == RegWrite \/ RegRead

SpecRegs == Init /\ [][NextRegs]_vars

\* C13: a bus read of an address in the reserved region 0xFEA0-0xFEFF returns
\* 0xFF, and a bus write to that region changes no emulator state
C13_ForbiddenRegion ==
    [][/\ (hist'.actor = "reg_read" /\ hist'.reg.addr \in Forbidden) =>
                hist'.reg.val = 255
       /\ (hist'.actor = "reg_write" /\ hist'.reg.addr \in Forbidden) =>
                UNCHANGED machine]_vars

\* a read of the last reserved address has returned 0x00
C13_ForbiddenReadsZero ==
    hist.actor = "reg_read" /\ hist.reg.addr = 65279 /\ hist.reg.val = 0

\* C14: for every read/write register (SCY, SCX, LYC, BGP, OBP0, OBP1, WY, WX,
\* BCPS, OCPS, TIMA, TMA, TAC, IF, IE, NR50, NR51, STAT, VBK) a bus write of v
\* followed immediately by a bus read of the same address returns v, except
\* that STAT bits 0-2 keep their value and VBK reads 0xFE | bank
C14_WriteThenRead ==
    [][(hist'.actor = "reg_write" /\ hist'.reg.addr \in RwRegs) =>
            LET a == hist'.reg.addr
                v == hist'.reg.val
                old == bus_get_memory(Cur, a)
            IN bus_get_memory(CurAfter, a) =
                    CASE a = STAT -> Or(And(old, 7), And(v, 248))
                      [] a = VBK -> Or(254, And(v, 1))
                      [] OTHER -> v]_vars

\* LYC holds 0x5A, BGP holds 0xFF, and a read of LYC has returned 0xFF
C14_LycReadsBgp ==
    /\ hist.actor = "reg_read" /\ hist.reg.addr = LYC
    /\ ppu.lyc = 90 /\ ppu.bgp = 255 /\ hist.reg.val = 255

(***************************************************************************)
(* Specification SpecTimer: the timer is ticked (bus_tick calls            *)
(* gbc_timer_tick) and the program writes its registers.                   *)
(***************************************************************************)
\* gbc_timer_tick is called at most MaxTimerTicks times
MaxTimerTicks == 2060

\* at most MaxTimerWrites writes to the timer registers are made
MaxTimerWrites == 3

\* the program writes the timer registers before the first tick, after 20
\* ticks or after 300 ticks
TimerWriteAt == {0, 20, 300}

\* what the program writes: <<address, value>>
TimerStores ==
    {<<TIMER_ADDR_DIV, 90>>, <<TIMER_ADDR_TIMA, 255>>, <<TIMER_ADDR_TMA, 254>>,
     <<TIMER_ADDR_TAC, 1>>, <<TIMER_ADDR_TAC, 4>>, <<TIMER_ADDR_TAC, 5>>,
     <<TIMER_ADDR_TAC, 6>>, <<TIMER_ADDR_TAC, 7>>}

\* a store instruction to a timer register: bus_set_memory(addr, val)
TimerWrite ==
    \E st \in TimerStores :
        LET M == bus_set_memory(Cur, st[1], st[2]) IN
        /\ hist.tim.writes < MaxTimerWrites
        /\ hist.tim.ticks \in TimerWriteAt
        /\ Commit(M)
        /\ hist' = [Hist("timer_write", "none", 0, M.log, <<>>, hist.window)
                        EXCEPT !.tim.writes = @ + 1,
                               !.tim.since =
                                    IF st[1] = TIMER_ADDR_TAC /\ st[2] # timer.TAC
                                    THEN -1 ELSE @]
        /\ UNCHANGED <<emulation_speed_cnt, speed, sched, threads, save>>

\* a load instruction from DIV: bus_get_memory(0xFF04)
DivRead ==
    /\ hist.actor = "timer_write"
    /\ Commit(Cur)
    /\ hist' = [Hist("div_read", "none", 0, hist.log, <<>>, hist.window)
                    EXCEPT !.reg = [addr |-> TIMER_ADDR_DIV,
                                    val |-> bus_get_memory(Cur, TIMER_ADDR_DIV),
                                    writes |-> @.writes]]
    /\ UNCHANGED <<emulation_speed_cnt, speed, sched, threads, save>>

\* one call of gbc_timer_tick
TimerRun ==
    /\ hist.tim.ticks < MaxTimerTicks
    /\ LET M == gbc_timer_tick(Cur) IN
        /\ Commit(M)
        /\ hist' = [Hist("timer", "none", 0, M.log, <<>>, hist.window)
                        EXCEPT !.tim.ticks = @ + 1,
                               !.tim.since =
                                    IF M.timer.TIMA # timer.TIMA THEN 0
                                    ELSE IF @ >= 0 THEN @ + 1 ELSE @]
    /\ UNCHANGED <<emulation_speed_cnt, speed, sched, threads, save>>

NextTimer == TimerWrite \/ DivRead \/ TimerRun

SpecTimer == Init /\ [][NextTimer]_vars

\* C15: a bus write to 0xFF04, whatever the value, sets DIV to 0: a read of
\* 0xFF04 before the next timer tick returns 0, and TIMA, TMA and TAC are
\* unchanged by the write
C15_DivWriteResets ==
    [][/\ (hist'.actor = "timer_write" /\ hist'.log[1][1] = TIMER_ADDR_DIV) =>
            /\ bus_get_memory(CurAfter, TIMER_ADDR_DIV) = 0
            /\ timer'.TIMA = timer.TIMA /\ timer'.TMA = timer.TMA
            /\ timer'.TAC = timer.TAC
       /\ (hist'.actor = "div_read" /\ hist'.log[1][1] = TIMER_ADDR_DIV) =>
            hist'.reg.val = 0]_vars

\* DIV had counted to 1, 0x5A was written to it, and the read that followed
\* returned 0
C15_DivReadZeroAfterWrite ==
    /\ hist.actor = "div_read" /\ hist.log = <<<<TIMER_ADDR_DIV, 90>>>>
    /\ hist.diva = 0 /\ hist.tim.ticks = 300 /\ hist.reg.val = 0

\* C16: while TAC bit 2 is set and TAC is unchanged, consecutive TIMA
\* increments are exactly 1024, 16, 64 or 256 timer ticks apart for clock
\* select 0, 1, 2, 3; when TIMA wraps past 0xFF it holds TMA after that same
\* tick and IF bit 2 is set in that tick with all other IF bits unchanged;
\* while TAC bit 2 is clear no timer tick changes TIMA or IF
C16_TimaRate ==
    /\ [](LET sel == timer.TAC % 4
              apart == CASE sel = 0 -> 1024 [] sel = 1 -> 16 [] sel = 2 -> 64 [] OTHER -> 256
          IN (hist.tim.since >= 0 /\ And(timer.TAC, 4) # 0) => hist.tim.since < apart)
    /\ [][hist'.actor = "timer" =>
            LET sel == timer.TAC % 4
                apart == CASE sel = 0 -> 1024 [] sel = 1 -> 16 [] sel = 2 -> 64 [] OTHER -> 256
            IN /\ timer'.TAC = timer.TAC
               /\ (timer'.TIMA # timer.TIMA /\ hist.tim.since >= 0) =>
                        hist.tim.since + 1 = apart
               /\ timer'.TIMA # timer.TIMA =>
                        /\ And(timer.TAC, 4) # 0
                        /\ IF timer.TIMA = 255
                           THEN timer'.TIMA = timer.TMA /\ bus'.IF_ = Or(bus.IF_, 4)
                           ELSE timer'.TIMA = timer.TIMA + 1 /\ bus'.IF_ = bus.IF_
               /\ And(timer.TAC, 4) = 0 =>
                        timer'.TIMA = timer.TIMA /\ bus'.IF_ = bus.IF_]_vars

\* with clock select 0 the second increment in a row came 1024 ticks after
\* the first, 2048 ticks after TAC was written
C16_SecondIncrementAt2048 ==
    /\ hist.actor = "timer" /\ timer.TAC = 4 /\ hist.tim.ticks = 2048
    /\ hist.tim.since = 0 /\ timer.TIMA = 2

(***************************************************************************)
(* Specification SpecJoypad: keys are pressed and released on the host,    *)
(* the program selects a key group at 0xFF00 and reads the register.       *)
(***************************************************************************)
\* the low nibble gbc_joypad_get_memory computes from the selection bits and
\* the keys held
JoypNibble(j) == And(JoypAfterRead(j.JOYP, j.buttons), BUTTONS_MSK)

\* whether some bit of the computed low nibble is 1 in j and 0 in k
JoypFallingEdge(j, k) == And(JoypNibble(j), BUTTONS_MSK - JoypNibble(k)) # 0

\* the history of a joypad step that leads to the joypad state k
JoypHist(actor, k, log) ==
    Hist(actor, IF JoypFallingEdge(joypad, k) THEN "falling" ELSE "none", 0, log,
         <<>>, hist.window)

\* the keys that are used: A, Start, Right, Down (bits of GBC_JOYPAD_*)
JoypKeys == {0, 3, 4, 7}

\* the host's event loop records a key press or release: keys[key].state
KeyEvent ==
    \E key \in JoypKeys :
        LET bit == 2 ^ key
            k == [joypad EXCEPT !.buttons =
                    IF And(@, bit) = 0 THEN @ + bit ELSE @ - bit]
        IN /\ joypad' = k
           /\ hist' = JoypHist("key_event", k, <<>>)
           /\ UNCHANGED <<cpu, isr_state, isr, bus, timer, ppu, wram, hram, ext_ram,
                          vram, oam, apu, emulation_speed_cnt, speed, sched, threads, save>>

\* a store instruction to 0xFF00: bus_set_memory(0xFF00, val)
JoypWrite ==
    \E val \in {0, 16, 32, 48, 255} :
        LET M == bus_set_memory(Cur, JOYPAD_ADDRESS, val) IN
        /\ Commit(M)
        /\ hist' = JoypHist("joyp_write", M.joypad, M.log)
        /\ UNCHANGED <<emulation_speed_cnt, speed, sched, threads, save>>

\* a load instruction from 0xFF00: bus_get_memory(0xFF00)
JoypRead ==
    LET M == gbc_joypad_get_memory(Cur, JOYPAD_ADDRESS) IN
    /\ Commit(M)
    /\ hist' = [JoypHist("joyp_read", M.joypad, <<>>)
                    EXCEPT !.reg = [addr |-> JOYPAD_ADDRESS,
                                    val |-> bus_get_memory(Cur, JOYPAD_ADDRESS),
                                    writes |-> @.writes]]
    /\ UNCHANGED <<emulation_speed_cnt, speed, sched, threads, save>>

NextJoypad == KeyEvent \/ JoypWrite \/ JoypRead

SpecJoypad == Init /\ [][NextJoypad]_vars

\* C17: whenever the low nibble computed for the joypad register (from the
\* pressed buttons and the selection bits 4-5) has any bit go from 1 to 0, the
\* joypad interrupt is requested by setting bit 4 of IF
C17_JoypadIrqOnFallingEdge ==
    [][(\E b \in {1, 2, 4, 8} :
            /\ And(JoypNibble(joypad), b) = b
            /\ And(JoypNibble(joypad'), b) = 0) =>
        And(bus'.IF_, INTERRUPT_JOYPAD) = INTERRUPT_JOYPAD]_vars

\* with the buttons selected, A was pressed: bit 0 of the register fell, the
\* program read 0x1E at 0xFF00, and IF is still 0
C17_PressWithoutIrq ==
    /\ hist.actor = "joyp_read" /\ hist.reg.val = 30
    /\ joypad.buttons = 1 /\ bus.IF_ = 0
(***************************************************************************)
(* ppu.c: gbc_ppu_tick with its dot and line counters, the OAM scan and    *)
(* the timing of the pixel fetcher.                                        *)
(***************************************************************************)
pfs_get_tile_0_e == 0
pfs_push_e == 6
pfs_suspended_e == 7
LCDC_OBJ_SIZE == 4
LCDC_WINDOW_EN == 32
LCDC_LCD_PPU_EN == 128
STAT_MODE0_INT_SEL == 8
STAT_MODE1_INT_SEL == 16
STAT_MODE2_INT_SEL == 32
STAT_LYC_INT_SEL == 64

\* the value of a ppu_mode_t
ModeNo(mode) ==
    CASE mode = "mode0_hblank" -> 0 [] mode = "mode1_vblank" -> 1
      [] mode = "mode2_oam_scan" -> 2 [] OTHER -> 3

\* ppu.object_attributes[idx], the view of oam_raw as obj_attr_t[40]
ObjAttr(M, idx) ==
    [y_pos |-> MemGet(M.oam, 4 * idx), x_pos |-> MemGet(M.oam, 4 * idx + 1),
     tile_idx |-> MemGet(M.oam, 4 * idx + 2), attributes |-> MemGet(M.oam, 4 * idx + 3)]

\* qsort with compare_sprite_x_offsets: ascending x_pos.  qsort leaves the
\* order of entries with equal x_pos unspecified; here they keep their order
\* (the objects of PpuOams have pairwise different x_pos)
RECURSIVE SortByX(_)
SortByX(sp) ==
    IF Len(sp) <= 1 THEN sp
    ELSE LET rest == SortByX(Tail(sp))
             before == SelectSeq(rest, LAMBDA e : e.x_pos < Head(sp).x_pos)
             after == SelectSeq(rest, LAMBDA e : e.x_pos >= Head(sp).x_pos)
         IN before \o <<Head(sp)>> \o after

\* case mode2_oam_scan of gbc_ppu_tick
PpuOamScan(M) ==
    LET p == M.ppu
        dot == p.line_dot_cnt
        size == IF dot = 0
                THEN (IF And(p.lcdc, LCDC_OBJ_SIZE) # 0 THEN 16 ELSE 8)
                ELSE p.obj_size
        o == ObjAttr(M, dot \div 2)
        sp == IF /\ dot % 2 = 0
                 /\ 10 > Len(p.sprites)
                 /\ o.y_pos - 16 <= p.ly
                 /\ o.y_pos - 16 + size > p.ly
              THEN Append(p.sprites, o) ELSE p.sprites
        M1 == [M EXCEPT !.ppu.obj_size = size, !.ppu.sprites = sp]
    IN IF 80 - 1 <= dot
       THEN [M1 EXCEPT !.ppu.sprites = SortByX(sp),
                       !.ppu.bg_fill = 0, !.ppu.obj_fill = 0,
                       !.ppu.bg_state = pfs_get_tile_0_e,
                       !.ppu.obj_state = pfs_suspended_e,
                       !.ppu.x = 0, !.ppu.lx = 0,
                       !.ppu.pixel_delay = 12 + And(p.scx, 7),
                       !.ppu.x_discard_count = And(p.scx, 7),
                       !.ppu.mode = "mode3_draw"]
       ELSE M1

\* ppu_pixel_fetcher_do, switch (pixel_fetcher.bg_state)
PpuFetchBg(p2) ==
    CASE p2.bg_state \in {5, pfs_push_e} ->
            IF p2.bg_fill = 0
            THEN [p2 EXCEPT !.bg_fill = 8, !.x = @ + 8, !.bg_state = pfs_get_tile_0_e]
            ELSE [p2 EXCEPT !.bg_state = pfs_push_e]
      [] p2.bg_state = pfs_suspended_e -> p2
      [] OTHER -> [p2 EXCEPT !.bg_state = @ + 1]

\* an OBJ fetcher that does not restart the BG fetcher when it pushes (used
\* to test C28)
PpuFetchObjNoRestart(p1, new) ==
    CASE p1.obj_state \in {5, pfs_push_e} ->
            [p1 EXCEPT !.obj_fill = IF new > @ THEN new ELSE @,
                       !.rd = @ + 1,
                       !.obj_state = pfs_suspended_e]
      [] p1.obj_state = pfs_suspended_e -> p1
      [] OTHER -> [p1 EXCEPT !.obj_state = @ + 1]

\* ppu_pixel_fetcher_do, switch (pixel_fetcher.obj_state); new is the number
\* of pixels the object contributes
PpuFetchObj(p1, new) ==
    CASE p1.obj_state \in {5, pfs_push_e} ->
            [p1 EXCEPT !.obj_fill = IF new > @ THEN new ELSE @,
                       !.rd = @ + 1,
                       !.obj_state = pfs_suspended_e,
                       !.bg_state = pfs_get_tile_0_e]
      [] p1.obj_state = pfs_suspended_e -> p1
      [] OTHER -> [p1 EXCEPT !.obj_state = @ + 1]

\* ppu_pixel_fetcher_do: the states and fill levels of the two fetchers
ppu_pixel_fetcher_do(p0) ==
    LET found == /\ p0.obj_state = pfs_suspended_e
                 /\ Len(p0.sprites) > p0.rd
                 /\ p0.sprites[p0.rd + 1].x_pos <= p0.lx + 8
        p1 == IF found
              THEN [p0 EXCEPT !.bg_state = pfs_suspended_e, !.obj_state = pfs_get_tile_0_e]
              ELSE p0
        \* case pfs_get_tile_data_hi_1_e runs into case pfs_push_e
        numPixels == IF p1.obj_state \in {5, pfs_push_e}
                     THEN 8 - ((p1.lx + 8) - p1.sprites[p1.rd + 1].x_pos) ELSE 0
    IN PpuFetchBg(PpuFetchObj(p1, IF numPixels > 0 THEN numPixels ELSE 0))

\* gbc_ppu_tick, case mode3_draw after ppu_pixel_fetcher_do has left the
\* fetchers as f
PpuDrawPop(M, f) ==
    LET delay == U8(f.pixel_delay - 1)
        pop == delay = 0 /\ f.obj_state = pfs_suspended_e /\ f.bg_fill > 0
        p == IF delay # 0 THEN [f EXCEPT !.pixel_delay = delay]
             ELSE IF ~pop THEN [f EXCEPT !.pixel_delay = 1]
             ELSE [f EXCEPT !.pixel_delay = 1,
                            !.bg_fill = @ - 1,
                            !.obj_fill = IF @ > 0 THEN @ - 1 ELSE @,
                            !.x_discard_count = IF @ # 0 THEN @ - 1 ELSE @,
                            !.lx = IF f.x_discard_count # 0 THEN @ ELSE @ + 1]
    IN IF 160 <= p.lx
       THEN [bus_HBlank_cb([M EXCEPT !.ppu = p]) EXCEPT !.ppu.mode = "mode0_hblank"]
       ELSE [M EXCEPT !.ppu = p]

\* case mode3_draw of gbc_ppu_tick
PpuDraw(M) == PpuDrawPop(M, ppu_pixel_fetcher_do(M.ppu))

\* the end of gbc_ppu_tick: the STAT interrupt on a change of mode; M5 is the
\* machine before it, mode0 the mode the tick began in
PpuModeIrq(M5, mode0) ==
    IF /\ M5.ppu.mode # mode0
       /\ \/ And(M5.ppu.stat, STAT_MODE0_INT_SEL) # 0 /\ M5.ppu.mode = "mode0_hblank"
          \/ And(M5.ppu.stat, STAT_MODE1_INT_SEL) # 0 /\ M5.ppu.mode = "mode1_vblank"
          \/ And(M5.ppu.stat, STAT_MODE2_INT_SEL) # 0 /\ M5.ppu.mode = "mode2_oam_scan"
    THEN BUS_SET_IRQ(M5, INTERRUPT_LCD)
    ELSE M5

\* gbc_ppu_tick after its switch: M1 is the machine after the switch, mode0
\* the mode before it
PpuAfterSwitch(M1, mode0) ==
    LET p1 == M1.ppu
        \* LYC == LY
        rise == p1.ly = p1.lyc /\ And(p1.stat, STAT_LYC_EQ_LY) = 0
        stat1 == IF p1.ly = p1.lyc THEN Or(p1.stat, STAT_LYC_EQ_LY)
                 ELSE And(p1.stat, 255 - STAT_LYC_EQ_LY)
        M2 == IF rise /\ And(stat1, STAT_LYC_INT_SEL) # 0
              THEN BUS_SET_IRQ([M1 EXCEPT !.ppu.stat = stat1], INTERRUPT_LCD)
              ELSE [M1 EXCEPT !.ppu.stat = stat1]
        M3 == [M2 EXCEPT !.ppu.stat = Or(And(@, 255 - STAT_PPU_MODE), ModeNo(p1.mode))]
        \* entry into VBlank
        M4 == IF p1.line_dot_cnt = 0 /\ p1.ly = 144
              THEN BUS_SET_IRQ([M3 EXCEPT !.ppu.screen = 1 - @], INTERRUPT_VBLANK)
              ELSE M3
        \* end of scanline
        ly1 == U8(p1.ly + 1)
        window == /\ And(p1.lcdc, LCDC_WINDOW_EN) # 0
                  /\ 0 < p1.wx /\ 166 > p1.wx /\ 0 < p1.wy /\ 143 > p1.wy
        fwy1 == IF window THEN U8(p1.fwy + 1) ELSE p1.fwy
    IN PpuModeIrq(
        IF 456 <= p1.line_dot_cnt + 1
        THEN IF 144 > ly1
             THEN [M4 EXCEPT !.ppu.line_dot_cnt = 0, !.ppu.ly = ly1,
                             !.ppu.fwy = fwy1, !.ppu.sprites = <<>>,
                             !.ppu.rd = 0, !.ppu.mode = "mode2_oam_scan"]
             ELSE IF 154 > ly1
             THEN [M4 EXCEPT !.ppu.line_dot_cnt = 0, !.ppu.ly = ly1,
                             !.ppu.fwy = 0, !.ppu.mode = "mode1_vblank"]
             ELSE [M4 EXCEPT !.ppu.line_dot_cnt = 0, !.ppu.ly = 0,
                             !.ppu.fwy = fwy1, !.ppu.sprites = <<>>,
                             !.ppu.rd = 0, !.ppu.mode = "mode2_oam_scan"]
        ELSE [M4 EXCEPT !.ppu.line_dot_cnt = @ + 1],
        mode0)

\* gbc_ppu_tick
PpuTick(M) ==
    PpuAfterSwitch(CASE M.ppu.mode = "mode2_oam_scan" -> PpuOamScan(M)
                     [] M.ppu.mode = "mode3_draw" -> PpuDraw(M)
                     [] OTHER -> M,
                   M.ppu.mode)
(***************************************************************************)
(* Specification SpecPpu: the PPU is ticked through a frame (bus_tick      *)
(* calls gbc_ppu_tick) while the program may store to LY, SCX and LCDC.    *)
(* The program has filled the OAM before; the STAT interrupt sources stay  *)
(* disabled, so every interrupt request of a PPU tick is a VBlank request. *)
(***************************************************************************)
\* gbc_ppu_tick is called at most MaxPpuTicks times: one frame of 154 lines
\* of 456 dots and the first lines of the next frame
MaxPpuTicks == 73000

\* at most MaxPpuWrites stores to PPU registers are made
MaxPpuWrites == 1

\* the OAM with entry k = e[k] = <<y_pos, x_pos, tile_idx, attributes>>
OamFrom(e) ==
    [r \in 0 .. 9 |-> [i \in 1 .. 16 |-> e[(r * 16 + i - 1) \div 4][((i - 1) % 4) + 1]]]

\* the OAM contents the program has set up: none; 40 objects on the lines
\* 0-7 next to each other; 40 objects spread over the lines 0-59
PpuOams ==
    {EmptyMem,
     OamFrom([k \in 0 .. 39 |-> <<16, 8 + k, k, 0>>]),
     OamFrom([k \in 0 .. 39 |-> <<16 + 4 * (k % 12), 8 + 4 * k, k, 0>>])}

\* what the program stores, <<after how many PPU ticks, address, value>>:
\* SCX and LCDC (8x16 objects) before the first tick, LCDC with the LCD
\* enabled (bit 7) in line 2, LY in the middle of the OAM scan of line 0 and
\* at the first dot of line 150
PpuStores ==
    {<<0, SCX, 5>>, <<0, LCDC, 4>>, <<1000, LCDC, 145>>, <<40, LY, 100>>,
     <<68400, LY, 5>>, <<68400, LY, 144>>}

InitPpu ==
    /\ cpu = ResetCpu
    /\ isr_state = "isr_state_idle_e"
    /\ isr = 0
    /\ bus = ResetBus
    /\ timer = ResetTimer
    /\ ppu = ResetPpu
    /\ wram = EmptyMem
    /\ hram = EmptyMem
    /\ ext_ram = EmptyMem
    /\ vram = EmptyMem
    /\ oam \in PpuOams
    /\ apu = ResetApu
    /\ joypad = ResetJoypad
    /\ emulation_speed_cnt = 0
    /\ speed = 10
    /\ sched = ResetSched
    /\ threads = ResetThreads
    /\ save = ResetSave
    /\ hist = NoHist

\* a store instruction to a PPU register: bus_set_memory(addr, val)
PpuWrite ==
    \E st \in PpuStores :
        LET M == bus_set_memory(Cur, st[2], st[3]) IN
        /\ hist.pp.writes < MaxPpuWrites
        /\ hist.pp.ticks = st[1]
        /\ Commit(M)
        /\ hist' = [Hist("ppu_write", "none", 0, M.log, <<>>, hist.window)
                        EXCEPT !.pp.writes = @ + 1]
        /\ UNCHANGED <<emulation_speed_cnt, speed, sched, threads, save>>

\* the number of stores to IF in a log
IfStores(log) == Cardinality({i \in 1 .. Len(log) : log[i][1] = INTERRUPT_FLAGS_ADDRESS})

\* the state and the history after gbc_ppu_tick has left the machine as M
PpuHist(M) ==
    LET fresh == ppu.line_dot_cnt = 0
        n == ModeNo(ppu.mode) + 1
    IN [Hist("ppu", "none", 0, M.log, <<>>, hist.window)
            EXCEPT !.pp.ticks = @ + 1,
                   !.pp.dots = [(IF fresh THEN <<0, 0, 0, 0>> ELSE @)
                                    EXCEPT ![n] = @ + 1],
                   !.pp.line = ppu.ly,
                   !.pp.swaps = (IF fresh /\ ppu.ly = 0 THEN 0 ELSE @)
                        + (IF M.ppu.screen # ppu.screen THEN 1 ELSE 0),
                   !.pp.irqs = (IF fresh /\ ppu.ly = 0 THEN 0 ELSE @)
                        + IfStores(M.log)]

PpuTicked(M) ==
    /\ Commit(M)
    /\ hist' = PpuHist(M)

\* one call of gbc_ppu_tick
PpuDot ==
    /\ hist.pp.ticks < MaxPpuTicks
    /\ PpuTicked(PpuTick(Cur))
    /\ UNCHANGED <<emulation_speed_cnt, speed, sched, threads, save>>

NextPpu == PpuWrite \/ PpuDot

SpecPpu == InitPpu /\ [][NextPpu]_vars

\* C18: after every PPU tick line_dot is in [0,455]; every visible scanline
\* (LY 0..143) is partitioned into mode 2 for exactly 80 dots, then mode 3,
\* then mode 0, the three durations summing to exactly 456 dots, and the next
\* line starts only when line_dot wraps from 455 to 0
C18_ScanlinePartition ==
    /\ [](ppu.line_dot_cnt \in 0 .. 455)
    /\ []((ppu.line_dot_cnt = 0 /\ ppu.ly \in 0 .. 143) => ppu.mode = "mode2_oam_scan")
    /\ [][hist'.actor = "ppu" =>
            /\ (ppu'.ly # ppu.ly \/ ppu'.line_dot_cnt = 0) =>
                    ppu.line_dot_cnt = 455 /\ ppu'.line_dot_cnt = 0
            /\ (ppu'.line_dot_cnt # 0 /\ ppu.ly \in 0 .. 143 /\ ppu'.mode # ppu.mode) =>
                    <<ppu.mode, ppu'.mode>> \in
                        {<<"mode2_oam_scan", "mode3_draw">>, <<"mode3_draw", "mode0_hblank">>}
            /\ (ppu'.line_dot_cnt = 0 /\ hist'.pp.line \in 0 .. 143) =>
                    /\ hist'.pp.dots[3] = 80
                    /\ hist'.pp.dots[4] > 0
                    /\ hist'.pp.dots[1] > 0
                    /\ hist'.pp.dots[2] = 0
                    /\ hist'.pp.dots[3] + hist'.pp.dots[4] + hist'.pp.dots[1] = 456]_vars
\* LY was overwritten with 5 during VBlank: the PPU is in the middle of a line
\* with a visible line number and in mode 1
C18_VisibleLineInVBlankMode ==
    /\ hist.actor = "ppu" /\ ppu.ly = 5 /\ ppu.line_dot_cnt = 200
    /\ ppu.mode = "mode1_vblank"

C20_OneSwapPerFrame ==
    [][/\ hist'.actor # "ppu" => ppu'.screen = ppu.screen
       /\ hist'.actor = "ppu" =>
            /\ (ppu.ly = 144 /\ ppu.line_dot_cnt = 0) =>
                    /\ ppu'.screen # ppu.screen
                    /\ IfStores(hist'.log) = 1
                    /\ And(bus'.IF_, INTERRUPT_VBLANK) = INTERRUPT_VBLANK
            /\ ~(ppu.ly = 144 /\ ppu.line_dot_cnt = 0) =>
                    /\ ppu'.screen = ppu.screen
                    /\ IfStores(hist'.log) = 0
                    /\ bus'.IF_ = bus.IF_
            /\ (ppu.ly = 153 /\ ppu'.ly = 0) =>
                    hist'.pp.swaps = 1 /\ hist'.pp.irqs = 1]_vars

\* LY was overwritten at line 150: the frame has swapped the buffers and
\* requested the VBlank interrupt twice
C20_TwoSwapsInFrame ==
    /\ hist.actor = "ppu" /\ hist.pp.swaps = 2 /\ hist.pp.irqs = 2
    /\ ppu.ly = 0 /\ ppu.line_dot_cnt = 0
\* C21: while LCDC bit 7 is 0, LY stays at 0, the PPU mode stays 0, no PPU
\* tick sets any IF bit and the front buffer is not swapped; after bit 7 is
\* set again the PPU starts from the first dot of a fresh line
C21_LcdOffHoldsPpu ==
    [][/\ (hist'.actor = "ppu" /\ And(ppu.lcdc, LCDC_LCD_PPU_EN) = 0) =>
            /\ ppu'.ly = 0
            /\ ppu'.mode = "mode0_hblank"
            /\ bus'.IF_ = bus.IF_
            /\ IfStores(hist'.log) = 0
            /\ ppu'.screen = ppu.screen
       /\ (hist'.actor = "ppu_write" /\ And(ppu.lcdc, LCDC_LCD_PPU_EN) = 0
                /\ And(ppu'.lcdc, LCDC_LCD_PPU_EN) # 0) =>
            /\ ppu'.line_dot_cnt = 0
            /\ ppu'.mode = "mode2_oam_scan"]_vars

\* with LCDC bit 7 clear since reset the PPU has reached line 144, swapped
\* the buffers and requested the VBlank interrupt
C21_VBlankWithLcdOff ==
    /\ hist.actor = "ppu" /\ And(ppu.lcdc, LCDC_LCD_PPU_EN) = 0
    /\ ppu.ly = 144 /\ ppu.line_dot_cnt = 1 /\ ppu.mode = "mode1_vblank"
    /\ hist.pp.swaps = 1 /\ And(bus.IF_, INTERRUPT_VBLANK) # 0
(***************************************************************************)
(* Specification SpecVideo: the emulation thread calls gbc_ppu_tick while  *)
(* the main thread runs render (main.c:447-468), which calls               *)
(* emulator_get_video_data (ppu.c:1135-1145).  No lock is taken on either  *)
(* side, so the steps of the two threads interleave freely.  The memcpy of *)
(* a screen buffer is VideoChunks steps.                                   *)
(***************************************************************************)
\* gbc_ppu_tick is called at most MaxVideoTicks times: one frame and the
\* first visible line of the next
MaxVideoTicks == 70400

\* render is called at most MaxRenders times
MaxRenders == 1

\* the parts the memcpy of a screen buffer is done in
VideoChunks == 2

\* gbc_ppu_tick from ppu p to ppu q has stored a pixel in the buffer `screen`
\* pointed to when it began (ppu.c:708-752: a pixel popped in mode 3 with
\* nothing left to discard)
PixelStored(p, q) == p.mode = "mode3_draw" /\ q.lx = p.lx + 1

\* the history record of a step of a host thread
ThreadHist(actor) == [hist EXCEPT !.actor = actor, !.log = <<>>]

\* emulator_get_video_data: the test of `screen` chooses the other buffer
RenderBegin ==
    /\ threads.render.pc = "idle"
    /\ hist.thr.renders < MaxRenders
    /\ threads' = [threads EXCEPT !.render =
                        [pc |-> "memcpy", buf |-> 1 - ppu.screen, rows |-> 0]]
    /\ hist' = [ThreadHist("render") EXCEPT !.thr.renders = @ + 1]
    /\ UNCHANGED <<cpu, isr_state, isr, bus, timer, ppu, wram, hram, ext_ram, vram,
                   oam, apu, joypad, emulation_speed_cnt, speed, sched, save>>

\* emulator_get_video_data: the memcpy, a part at a time, and the return
RenderCopy ==
    /\ threads.render.pc = "memcpy"
    /\ threads' = [threads EXCEPT !.render =
                        IF @.rows + 1 < VideoChunks
                        THEN [@ EXCEPT !.rows = @ + 1]
                        ELSE [pc |-> "idle", buf |-> 0, rows |-> 0]]
    /\ hist' = ThreadHist("render")
    /\ UNCHANGED <<cpu, isr_state, isr, bus, timer, ppu, wram, hram, ext_ram, vram,
                   oam, apu, joypad, emulation_speed_cnt, speed, sched, save>>

\* one call of gbc_ppu_tick on the emulation thread
VideoDot ==
    /\ hist.pp.ticks < MaxVideoTicks
    /\ PpuTicked(PpuTick(Cur))
    /\ UNCHANGED <<emulation_speed_cnt, speed, sched, threads, save>>

NextVideo == VideoDot \/ RenderBegin \/ RenderCopy

SpecVideo == Init /\ [][NextVideo]_vars

\* C22: under every interleaving of the emulation thread and the render
\* thread the buffer emulator_get_video_data copies is not written by the
\* core during the copy: the core writes only the back buffer, the roles
\* change only at the VBlank swap, and the swap does not happen during a copy
C22_CopyNotWritten ==
    /\ [](threads.render.pc = "memcpy" => threads.render.buf # ppu.screen)
    /\ [][hist'.actor = "ppu" =>
            /\ PixelStored(ppu, ppu') =>
                    ~(threads.render.pc = "memcpy" /\ threads.render.buf = ppu.screen)
            /\ ppu'.screen # ppu.screen =>
                    /\ threads.render.pc # "memcpy"
                    /\ ppu.ly = 144 /\ ppu.line_dot_cnt = 0]_vars

\* the buffers were swapped during the memcpy, and the core has drawn pixels
\* of line 0 of the next frame into the buffer being copied
C22_DrawnIntoCopiedBuffer ==
    /\ threads.render.pc = "memcpy" /\ threads.render.buf = ppu.screen
    /\ hist.actor = "ppu" /\ ppu.mode = "mode3_draw" /\ ppu.ly = 0 /\ ppu.lx = 80
(***************************************************************************)
(* Specification SpecAudio: the emulation thread in the sampling branch of *)
(* gbc_apu_tick (apu.c:611-635) and the audio thread in audio_callback     *)
(* (main.c:130-168), which calls emulator_get_audio_data (apu.c:1120-1126).*)
(* apu.stereo_data is accessed without a lock from both threads, so every  *)
(* load and store of apu.stereo_data.index is a step of its own; a value   *)
(* loaded once may be kept in a register (threads.emu.i).  The sections    *)
(* under gEmulatorDataMutex are single steps.  SDL calls audio_callback    *)
(* whenever the device wants data.  The values audio_callback loads from   *)
(* the index (the lengths of its copies) are not kept.                     *)
(***************************************************************************)
\* audio_callback is called at most MaxCalls times
MaxCalls == 3

\* the buffer counted as full one sample too late
SampleBufferFullLate(n) == MAX_NUM_SAMPLES < n

\* MAX_NUM_SAMPLES <= ++apu.stereo_data.index, for the incremented value n
SampleBufferFull(n) == MAX_NUM_SAMPLES <= n

\* one step of the emulation thread in gbc_apu_tick when sampling_timer has
\* wrapped to 0
ApuSample ==
    LET e == threads.emu IN
    /\ \/ /\ e.pc = "run"          \* right[index] = ...
          /\ threads' = [threads EXCEPT !.emu = [pc |-> "left", i |-> apu.index]]
          /\ hist' = [ThreadHist("emu") EXCEPT !.thr.stored = apu.index]
          /\ apu' = apu
       \/ /\ e.pc = "left"         \* left[index] = ..., index loaded again or not
          /\ \E i \in {e.i, apu.index} :
                /\ threads' = [threads EXCEPT !.emu = [pc |-> "inc", i |-> i]]
                /\ hist' = [ThreadHist("emu") EXCEPT !.thr.stored = i]
          /\ apu' = apu
       \/ /\ e.pc = "inc"          \* ++index, index loaded again or not
          /\ \E i \in {e.i, apu.index} :
                /\ apu' = [apu EXCEPT !.index = i + 1]
                /\ threads' = [threads EXCEPT !.emu =
                        [pc |-> IF SampleBufferFull(i + 1) THEN "wait" ELSE "run",
                         i |-> 0]]
                /\ hist' = [ThreadHist("emu") EXCEPT !.thr.drained =
                                IF i + 1 = MAX_NUM_SAMPLES THEN FALSE ELSE @]
       \/ /\ e.pc = "wait"         \* emulator_wait_for_data_collection
          /\ threads.collected # 0
          /\ threads' = [threads EXCEPT !.emu.pc = "reset", !.collected = 0]
          /\ hist' = ThreadHist("emu")
          /\ apu' = apu
       \/ /\ e.pc = "reset"        \* index = 0
          /\ apu' = [apu EXCEPT !.index = 0]
          /\ threads' = [threads EXCEPT !.emu = [pc |-> "run", i |-> 0]]
          /\ hist' = [ThreadHist("emu_reset") EXCEPT
                        !.thr.lost = IF hist.thr.drained THEN @ ELSE 1,
                        !.thr.drained = TRUE]
    /\ UNCHANGED <<cpu, isr_state, isr, bus, timer, ppu, wram, hram, ext_ram, vram,
                   oam, joypad, emulation_speed_cnt, speed, sched, save>>

\* one step of the audio thread in audio_callback
AudioCallback ==
    LET a == threads.audio IN
    /\ \/ /\ a.pc = "idle"         \* memcpy(ch_r, right, index)
          /\ hist.thr.calls < MaxCalls
          /\ threads' = [threads EXCEPT !.audio.pc = "left"]
          /\ hist' = [ThreadHist("audio") EXCEPT
                        !.thr.calls = @ + 1,
                        !.thr.right = apu.index = MAX_NUM_SAMPLES]
          /\ apu' = apu
       \/ /\ a.pc = "left"         \* memcpy(ch_l, left, index)
          /\ threads' = [threads EXCEPT !.audio.pc = "num"]
          /\ hist' = [ThreadHist("audio") EXCEPT
                        !.thr.drained = @ \/ (hist.thr.right /\ apu.index = MAX_NUM_SAMPLES),
                        !.thr.right = FALSE]
          /\ apu' = apu
       \/ /\ a.pc = "num"          \* *num_samples = index
          /\ threads' = [threads EXCEPT !.audio.pc = "zero"]
          /\ hist' = ThreadHist("audio")
          /\ apu' = apu
       \/ /\ a.pc = "zero"         \* index = 0
          /\ apu' = [apu EXCEPT !.index = 0]
          /\ threads' = [threads EXCEPT !.audio.pc = "signal"]
          /\ hist' = ThreadHist("audio")
       \/ /\ a.pc = "signal"       \* gEmulatorDataCollected = 1 under the mutex
          /\ threads' = [threads EXCEPT !.audio.pc = "idle", !.collected = 1]
          /\ hist' = ThreadHist("audio")
          /\ apu' = apu
    /\ UNCHANGED <<cpu, isr_state, isr, bus, timer, ppu, wram, hram, ext_ram, vram,
                   oam, joypad, emulation_speed_cnt, speed, sched, save>>

NextAudio == ApuSample \/ AudioCallback

SpecAudio == Init /\ [][NextAudio]_vars

\* C23: under every interleaving of gbc_apu_tick and emulator_get_audio_data
\* the fill index of the sample buffer never exceeds the capacity of 550 and
\* every sample store uses an index below 550
C23_IndexWithinCapacity ==
    /\ apu.index <= MAX_NUM_SAMPLES
    /\ hist.thr.stored < MAX_NUM_SAMPLES

\* the buffer is full, the emulation thread waits, and audio_callback is in
\* the middle of copying it
C23_FullWhileCopying ==
    /\ apu.index = MAX_NUM_SAMPLES /\ hist.thr.stored = MAX_NUM_SAMPLES - 1
    /\ threads.emu.pc = "wait" /\ threads.audio.pc = "num"

\* C24: when the sample buffer becomes full the core blocks and does not
\* reset the fill index or produce further samples until the host has
\* copied out the buffered samples
C24_FullBufferDrainedBeforeReset ==
    [][hist'.actor = "emu_reset" => hist.thr.drained]_vars

\* the emulation thread has set the index of a full buffer back to 0 and
\* stored the next sample although audio_callback had not copied the buffer
C24_SamplesDiscarded ==
    /\ hist.thr.lost = 1 /\ hist.thr.calls = 1
    /\ threads.audio.pc = "idle" /\ threads.emu.pc = "left" /\ apu.index = 0
(***************************************************************************)
(* Specification SpecSave: main calls emulator_load_save_file once, after  *)
(* emulator_load_game and before it starts the emulation thread            *)
(* (main.c:608-623); the file given on the command line has any size.      *)
(* Sizes are counted in units; the blobs are those the components read, in *)
(* the order of the calls.  A read stores the bytes of the file in the     *)
(* component; the contents of the components after the load are not part   *)
(* of the model.                                                           *)
(***************************************************************************)
\* the save file has at most MaxFileSize units
MaxFileSize == 15

\* gbc_apu_set_internal_state: one read of the state of the APU
ApuBlobs == <<<<"apu", "apu", 1>>>>

\* <<component, object, sizeof(object)>> of the reads emulator_load_save_file
\* makes through gbc_cpu_set_internal_state, gbc_bus_set_internal_state,
\* gbc_ppu_set_internal_state, gbc_apu_set_internal_state and
\* gbc_tim_set_internal_state
SaveBlobs ==
    <<<<"cpu", "cpu", 1>>, <<"bus", "bus", 4>>,
      <<"ppu", "ppu", 1>>, <<"ppu", "ppu_state", 1>>, <<"ppu", "pixel_fetcher", 1>>,
      <<"ppu", "vram", 2>>, <<"ppu", "bg_cram", 1>>, <<"ppu", "obj_cram", 1>>>>
    \o ApuBlobs \o <<<<"tim", "timer", 1>>>>

\* emulator_cb_read_from_save_file(data, size) with the file as in S: what it
\* returns and where it leaves the file position
emulator_cb_read_from_save_file(S, size) ==
    IF size <= S.size - S.pos
    THEN [ret |-> 0, pos |-> S.pos + size]
    ELSE [ret |-> 1, pos |-> S.pos]

\* emulator_load_save_file up to and including its next read: the test
\* 0 == ret before every component, whose result is not assigned to ret
LoadStep ==
    /\ save.pc \in 1 .. Len(SaveBlobs)
    /\ LET r == emulator_cb_read_from_save_file(save, SaveBlobs[save.pc][3]) IN
       IF save.ret = 0
       THEN /\ save' = [save EXCEPT !.pos = r.pos, !.pc = @ + 1]
            /\ hist' = [hist EXCEPT !.actor = "load", !.log = <<>>,
                                    !.sav.reads = Append(@, r.ret)]
       ELSE /\ save' = [save EXCEPT !.pc = Len(SaveBlobs) + 1]
            /\ hist' = [hist EXCEPT !.actor = "load", !.log = <<>>]
    /\ UNCHANGED <<cpu, isr_state, isr, bus, timer, ppu, wram, hram, ext_ram, vram,
                   oam, apu, joypad, emulation_speed_cnt, speed, sched, threads>>

InitSave ==
    /\ cpu = ResetCpu
    /\ isr_state = "isr_state_idle_e"
    /\ isr = 0
    /\ bus = ResetBus
    /\ timer = ResetTimer
    /\ ppu = ResetPpu
    /\ wram = EmptyMem
    /\ hram = EmptyMem
    /\ ext_ram = EmptyMem
    /\ vram = EmptyMem
    /\ oam = EmptyMem
    /\ apu = ResetApu
    /\ joypad = ResetJoypad
    /\ emulation_speed_cnt = 0
    /\ speed = 10
    /\ sched = ResetSched
    /\ threads = ResetThreads
    /\ save \in {[size |-> n, pos |-> 0, pc |-> 1, ret |-> 0] : n \in 0 .. MaxFileSize}
    /\ hist = NoHist

NextSave == LoadStep

SpecSave == InitSave /\ [][NextSave]_vars

\* C25: emulator_load_save_file reports success (0) only if all five
\* component states (CPU, Bus, PPU, APU, Timer, in that order) were read
\* completely; if any component's blob is missing or short it reports
\* failure (non-zero) and does not go on to load the later components
C25_LoadReportsFailure ==
    save.pc = Len(SaveBlobs) + 1 =>
        LET reads == hist.sav.reads
            failed == {i \in 1 .. Len(reads) : reads[i] # 0}
        IN /\ save.ret = 0 => (Len(reads) = Len(SaveBlobs) /\ failed = {})
           /\ failed # {} =>
                /\ save.ret # 0
                /\ \A i \in failed, j \in 1 .. Len(reads) :
                        j > i => SaveBlobs[j][1] = SaveBlobs[i][1]

\* the file is too short for the state of the bus: the read of the bus
\* failed, the reads of the PPU, the APU and the timer were made all the
\* same, and emulator_load_save_file has returned 0
C25_SuccessAfterFailedRead ==
    /\ save.pc = Len(SaveBlobs) + 1 /\ save.ret = 0 /\ save.size = 3
    /\ hist.sav.reads = <<0, 1, 0, 0, 1, 1, 1, 1, 1, 1>>
(***************************************************************************)
(* Specification SpecPush: the test build sets the registers with          *)
(* cpu_setup (cpu.c:1838-1852) and then runs PUSH AF; POP BC, which the    *)
(* cartridge holds at 0x0100.                                              *)
(***************************************************************************)
\* cpu_setup: memset(&cpu, 0, sizeof(cpu)) and the ten assignments
cpu_setup(a, f, b, c, d, e, h, l, pc, sp) ==
    [a |-> a, f |-> f, b |-> b, c |-> c, d |-> d, e |-> e, h |-> h, l |-> l,
     sp |-> sp, pc |-> pc, stall_cnt |-> 0,
     interrupts_enabled |-> FALSE, stopped |-> FALSE, halted |-> FALSE,
     last_addr |-> 0, last_opcode |-> 0]

InitPush ==
    /\ \E a \in {18, 255}, f \in 0 .. 255, sp \in {65534, 65520} :
            cpu = cpu_setup(a, f, 0, 0, 0, 0, 0, 0, 256, sp)
    /\ isr_state = "isr_state_idle_e"
    /\ isr = 0
    /\ bus = ResetBus
    /\ timer = ResetTimer
    /\ ppu = ResetPpu
    /\ wram = EmptyMem
    /\ hram = EmptyMem
    /\ ext_ram = EmptyMem
    /\ vram = EmptyMem
    /\ oam = EmptyMem
    /\ apu = ResetApu
    /\ joypad = ResetJoypad
    /\ emulation_speed_cnt = 0
    /\ speed = 10
    /\ sched = ResetSched
    /\ threads = ResetThreads
    /\ save = ResetSave
    /\ hist = NoHist

\* one call of gbc_cpu_tick: PUSH AF at 0x0100, POP BC at 0x0101
CpuTickPush ==
    /\ cpu.pc \in {256, 257}
    /\ CpuTicked(gbc_cpu_tick(Cur, IF cpu.pc = 256 THEN <<245, 0, 0>> ELSE <<193, 0, 0>>))
    /\ UNCHANGED <<emulation_speed_cnt, speed, sched, threads, save>>

NextPush == CpuTickPush

SpecPush == InitPush /\ [][NextPush]_vars

\* C26: with SP = 0xFFFE and AF = 0x1234, PUSH AF followed by POP BC leaves
\* BC = 0x1230 and SP = 0xFFFE
C26_PushAfPopBc ==
    [][(/\ Executed(245) /\ cpu.pc = 257 /\ cpu.sp = 65532
        /\ cpu.a = 18 /\ cpu.f = 52) =>
            (cpu'.b = 18 /\ cpu'.c = 48 /\ cpu'.sp = 65534)]_vars

\* PUSH AF; POP BC from SP = 0xFFFE and AF = 0x1234 has left BC = 0x1234
C26_LowNibbleSurvives ==
    /\ Executed(193) /\ cpu.pc = 258 /\ cpu.sp = 65534
    /\ cpu.a = 18 /\ cpu.f = 52 /\ cpu.b = 18 /\ cpu.c = 52

\* C28: at every dot of mode 3 exactly one of the BG and the OBJ fetcher is
\* suspended; an OBJ fetch starts only when the next listed object has
\* X <= lx + 8, and the BG fetcher restarts when that object is pushed;
\* pixels are popped only while the OBJ fetcher is suspended and never from
\* an empty BG FIFO; no FIFO holds more than 8 pixels
C28_FetcherPipelines ==
    [][LET f == ppu_pixel_fetcher_do(ppu)
           popped == ppu'.lx # ppu.lx \/ ppu'.x_discard_count # ppu.x_discard_count
                     \/ ppu'.bg_fill < f.bg_fill
       IN
       /\ (ppu'.mode = "mode3_draw") =>
              ((ppu'.bg_state = pfs_suspended_e) # (ppu'.obj_state = pfs_suspended_e))
       /\ ppu'.bg_fill \in 0 .. 8 /\ ppu'.obj_fill \in 0 .. 8
       /\ (hist'.actor = "ppu" /\ ppu.mode = "mode3_draw") =>
              /\ (ppu.obj_state = pfs_suspended_e /\ ppu'.obj_state # pfs_suspended_e) =>
                     /\ Len(ppu.sprites) > ppu.rd
                     /\ ppu.sprites[ppu.rd + 1].x_pos <= ppu.lx + 8
              /\ (ppu.obj_state # pfs_suspended_e /\ ppu'.obj_state = pfs_suspended_e) =>
                     /\ ppu'.rd = ppu.rd + 1
                     /\ ppu'.bg_state # pfs_suspended_e
              /\ (ppu.bg_state = pfs_suspended_e /\ ppu'.bg_state # pfs_suspended_e) =>
                     ppu'.rd = ppu.rd + 1
              /\ popped =>
                     /\ ppu'.obj_state = pfs_suspended_e
                     /\ f.bg_fill > 0
                     /\ ppu'.bg_fill = f.bg_fill - 1]_vars

\* in mode 3 the fetch of the second object of the line is in flight: the BG
\* fetcher is suspended and no pixel is popped although the BG FIFO holds
\* pixels and the pixel delay has run out
C28_ObjFetchHoldsPixels ==
    /\ hist.actor = "ppu" /\ ppu.mode = "mode3_draw"
    /\ ppu.bg_state = pfs_suspended_e /\ ppu.obj_state = 4
    /\ ppu.rd = 1 /\ ppu.bg_fill > 0 /\ ppu.obj_fill > 0 /\ ppu.pixel_delay = 1

(***************************************************************************)
(* Specification SpecHdma: the program has stored the source 0xC000 and    *)
(* the destination 0x8A00 of a VRAM DMA and three blocks of data; it       *)
(* stores to 0xFF55 while the PPU is ticked through the first lines of a   *)
(* frame, where every end of mode 3 calls bus_HBlank_cb.                   *)
(***************************************************************************)
\* gbc_ppu_tick is called at most MaxHdmaTicks times: four scanlines
MaxHdmaTicks == 1900

\* at most MaxHdmaWrites stores to 0xFF55 are made
MaxHdmaWrites == 2

\* what the program stores to 0xFF55, <<after how many PPU ticks, value>>:
\* an H-Blank transfer of 1, 2 or 3 blocks in the OAM scan or in the HBlank
\* of line 0, and a value with bit 7 clear or a new start in lines 1 and 2
HdmaStores ==
    {<<0, 128>>, <<0, 129>>, <<0, 130>>, <<300, 129>>, <<300, 130>>,
     <<500, 0>>, <<500, 1>>, <<500, 129>>, <<1000, 0>>}

InitHdma ==
    /\ cpu = ResetCpu
    /\ isr_state = "isr_state_idle_e"
    /\ isr = 0
    /\ bus = [ResetBus EXCEPT !.vram_dma.src = 49152, !.vram_dma.dst = 35328]
    /\ timer = ResetTimer
    /\ ppu = ResetPpu
    /\ wram = MemPut(MemPut(MemPut(EmptyMem, 0, 165), 17, 90), 47, 60)
    /\ hram = EmptyMem
    /\ ext_ram = EmptyMem
    /\ vram = EmptyMem
    /\ oam = EmptyMem
    /\ apu = ResetApu
    /\ joypad = ResetJoypad
    /\ emulation_speed_cnt = 0
    /\ speed = 10
    /\ sched = ResetSched
    /\ threads = ResetThreads
    /\ save = ResetSave
    /\ hist = NoHist

\* a store instruction to 0xFF55: bus_set_memory(0xFF55, val); the history
\* keeps the length field of the H-Blank transfer that the store has started
\* (dma.page, -1 when the store has left no transfer active) and counts the
\* H-Blank entries since then (dma.ticks)
HdmaWrite ==
    \E st \in HdmaStores :
        LET M == bus_set_memory(Cur, 65365, st[2]) IN
        /\ hist.dma.writes < MaxHdmaWrites
        /\ hist.pp.ticks = st[1]
        /\ Commit(M)
        /\ hist' = [Hist("hdma_write", "none", 0, M.log, <<>>, hist.window)
                        EXCEPT !.dma.writes = @ + 1,
                               !.dma.ticks = 0,
                               !.dma.page = IF M.bus.vram_dma.active
                                            THEN And(st[2], VRAM_DMA_LEN_MSK)
                                            ELSE -1]
        /\ UNCHANGED <<emulation_speed_cnt, speed, sched, threads, save>>

\* the history after a PPU tick that has left the machine as M
HdmaHist(M) ==
    [PpuHist(M) EXCEPT !.dma.ticks =
        IF ppu.mode = "mode3_draw" /\ M.ppu.mode = "mode0_hblank" THEN @ + 1 ELSE @]

\* one call of gbc_ppu_tick
HdmaDot ==
    /\ hist.pp.ticks < MaxHdmaTicks
    /\ LET M == PpuTick(Cur) IN Commit(M) /\ hist' = HdmaHist(M)
    /\ UNCHANGED <<emulation_speed_cnt, speed, sched, threads, save>>

NextHdma == HdmaWrite \/ HdmaDot

SpecHdma == InitHdma /\ [][NextHdma]_vars

\* the 16 bytes at src have been stored to dst, and nothing else, in a step
HdmaCopied16(src, dst) ==
    /\ Len(hist'.log) = 16
    /\ \A i \in 0 .. 15 :
          /\ hist'.log[i + 1] = <<dst + i, MemGet(wram, And(src + i, 4095))>>
          /\ MemGet(vram', And(dst + i, 8191)) = MemGet(wram, And(src + i, 4095))

\* C27: an H-Blank VRAM DMA started by a store to 0xFF55 with bit 7 set and
\* the length field n copies exactly 16 bytes at each of the next n + 1
\* H-Blank entries, advances source and destination by 16 each time and is
\* inactive exactly after the (n + 1)-th; a store with bit 7 clear while it
\* is active leaves it inactive, copies no byte and starts no
\* general-purpose transfer
C27_HBlankDma ==
    [][LET d == bus.vram_dma
           n == hist.dma.page
           k == hist.dma.ticks
           entry == ppu.mode = "mode3_draw" /\ ppu'.mode = "mode0_hblank"
       IN
       /\ (hist'.actor = "ppu" /\ entry /\ n >= 0 /\ k <= n) =>
              /\ d.active /\ d.mode = "HBlank_dma"
              /\ HdmaCopied16(d.src, d.dst)
              /\ bus'.vram_dma.src = d.src + 16
              /\ bus'.vram_dma.dst = d.dst + 16
              /\ bus'.vram_dma.active = (k < n)
       /\ (hist'.actor = "ppu" /\ ~(entry /\ n >= 0 /\ k <= n)) =>
              /\ hist'.log = <<>> /\ vram' = vram /\ bus' = bus
       /\ (hist'.actor = "hdma_write" /\ d.active /\ hist'.log[1][2] < 128) =>
              /\ ~bus'.vram_dma.active
              /\ hist'.log = <<<<65365, hist'.log[1][2]>>>>
              /\ vram' = vram
              /\ bus' = [bus EXCEPT !.vram_dma.active = FALSE]
              /\ cpu' = cpu
       /\ (hist'.actor = "hdma_write") =>
              /\ bus'.vram_dma.src = d.src /\ bus'.vram_dma.dst = d.dst
       /\ (n >= 0) => (d.active = (k <= n))]_vars

\* a transfer with n = 2 has copied its third block at the third H-Blank entry
\* and is inactive
C27_ThirdBlockCopied ==
    /\ hist.actor = "ppu" /\ hist.dma.page = 2 /\ hist.dma.ticks = 3
    /\ Len(hist.log) = 16
    /\ ~bus.vram_dma.active
    /\ bus.vram_dma.src = 49152 + 48
    /\ MemGet(vram, 2560) = 165 /\ MemGet(vram, 2577) = 90 /\ MemGet(vram, 2607) = 60

(***************************************************************************)
(* Specification SpecLy: the PPU is ticked through a frame while the       *)
(* program stores to LY (0xFF44).                                          *)
(***************************************************************************)
\* at most MaxLyWrites stores to LY are made
MaxLyWrites == 1

\* what the program stores to LY, <<after how many PPU ticks, value>>: in
\* the OAM scan and in mode 3 of line 0 and in line 2
LyStores == {<<40, 144>>, <<40, 200>>, <<100, 255>>, <<1000, 153>>}

\* a store instruction to LY: bus_set_memory(0xFF44, val)
LyWrite ==
    \E st \in LyStores :
        LET M == bus_set_memory(Cur, LY, st[2]) IN
        /\ hist.pp.writes < MaxLyWrites
        /\ hist.pp.ticks = st[1]
        /\ Commit(M)
        /\ hist' = [Hist("ly_write", "none", 0, M.log, <<>>, hist.window)
                        EXCEPT !.pp.writes = @ + 1]
        /\ UNCHANGED <<emulation_speed_cnt, speed, sched, threads, save>>

NextLy == LyWrite \/ PpuDot

SpecLy == InitPpu /\ [][NextLy]_vars

\* C29: LY is in 0 .. 153 in every reachable state, whatever the program
\* stores to the PPU registers; a PPU tick adds one to LY at the end of a
\* scanline of 456 dots and wraps it from 153 to 0; every pixel of mode 3 is
\* stored in a row below 144
C29_LyInRange ==
    [][/\ ppu'.ly \in 0 .. 153
       /\ (hist'.actor = "ppu") =>
              /\ ppu'.ly = IF ppu.line_dot_cnt # 455 THEN ppu.ly
                           ELSE IF ppu.ly = 153 THEN 0 ELSE ppu.ly + 1
              /\ PixelStored(ppu, ppu') => ppu.ly < 144]_vars

\* a pixel of mode 3 has been stored in row 200 of the screen of 144 rows
C29_PixelInRow200 ==
    /\ hist.actor = "ppu" /\ ppu.mode = "mode3_draw"
    /\ ppu.ly = 200 /\ ppu.lx = 1

(***************************************************************************)
(* Specification SpecDiv: bus_tick ticks the timer (twice in double speed) *)
(* and then the APU, at speed 10, where the APU is ticked in every call;   *)
(* the program stores to DIV.  The run begins shortly before DIV changes   *)
(* from 31 to 32 or from 63 to 64, the APU having seen the current DIV.    *)
(***************************************************************************)
\* bus_tick is called at most MaxDivTicks times
MaxDivTicks == 300

\* at most MaxDivWrites stores to DIV are made
MaxDivWrites == 1

\* the program stores to DIV after so many calls of bus_tick
DivWriteAt == {2, 20}

InitDiv ==
    /\ cpu = ResetCpu
    /\ isr_state = "isr_state_idle_e"
    /\ isr = 0
    /\ \E k \in {0, KEY1_DOUBLE_SPEED} : bus = [ResetBus EXCEPT !.key1 = k]
    /\ \E d \in {31, 63} :
          /\ timer = [ResetTimer EXCEPT !.DIVA = d, !.DIVA_PRESC_CNT = 250]
          /\ apu = [ResetApu EXCEPT !.last_div = d]
    /\ ppu = ResetPpu
    /\ wram = EmptyMem
    /\ hram = EmptyMem
    /\ ext_ram = EmptyMem
    /\ vram = EmptyMem
    /\ oam = EmptyMem
    /\ joypad = ResetJoypad
    /\ emulation_speed_cnt = 0
    /\ speed = 10
    /\ sched = ResetSched
    /\ threads = ResetThreads
    /\ save = ResetSave
    /\ hist = NoHist

\* a store instruction to DIV: bus_set_memory(0xFF04, val)
DivWrite ==
    LET M == bus_set_memory(Cur, TIMER_ADDR_DIV, 90) IN
    /\ hist.tim.writes < MaxDivWrites
    /\ hist.tim.ticks \in DivWriteAt
    /\ Commit(M)
    /\ hist' = [Hist("div_write", "none", 0, M.log, <<>>, hist.window)
                    EXCEPT !.tim.writes = @ + 1]
    /\ UNCHANGED <<emulation_speed_cnt, speed, sched, threads, save>>

\* the calls of gbc_timer_tick and of gbc_apu_tick in one bus_tick; the
\* history keeps the DIV value that the previous gbc_apu_tick has read
DivBusTick ==
    /\ hist.tim.ticks < MaxDivTicks
    /\ ApuDue(emulation_speed_cnt)
    /\ LET T == gbc_timer_tick(Cur)
           M == gbc_apu_tick(IF And(bus.key1, KEY1_DOUBLE_SPEED) # 0
                             THEN gbc_timer_tick(T) ELSE T)
       IN /\ Commit(M)
          /\ hist' = [Hist("apu", "none", 0, M.log, <<>>, hist.window)
                          EXCEPT !.tim.ticks = @ + 1,
                                 !.reg = [addr |-> TIMER_ADDR_DIV,
                                          val |-> apu.last_div,
                                          writes |-> @.writes]]
    /\ UNCHANGED <<emulation_speed_cnt, speed, sched, threads, save>>

NextDiv == DivWrite \/ DivBusTick

SpecDiv == InitDiv /\ [][NextDiv]_vars

\* C30: gbc_apu_tick generates a frame-sequencer step exactly when the
\* selected DIV bit (bit 5 in single speed, bit 6 in double speed) was 1 at
\* the previous APU tick and is 0 now, a DIV reset included, and never on a
\* change from 0 to 1
C30_StepOnFallingEdge ==
    [][(hist'.actor = "apu") =>
        LET sel == IF And(bus.key1, KEY1_DOUBLE_SPEED) # 0 THEN 64 ELSE 32
            fall == And(apu.last_div, sel) # 0 /\ And(timer'.DIVA, sel) = 0
        IN apu'.div_apu_512Hz = fall]_vars

\* in single speed a step has been generated when DIV went from 31 to 32
C30_StepOnRisingEdge ==
    /\ hist.actor = "apu" /\ And(bus.key1, KEY1_DOUBLE_SPEED) = 0
    /\ hist.reg.val = 31 /\ apu.last_div = 32 /\ timer.DIVA = 32
    /\ apu.div_apu_512Hz

(***************************************************************************)
(* Specification SpecApu: the program stores to the sound registers and    *)
(* gbc_apu_tick ticks the four channels.  div_apu_512Hz, which             *)
(* gbc_apu_tick derives from DIV, is an input of the channel ticks here:   *)
(* it is true in one call of 8192.                                         *)
(***************************************************************************)
\* the programs: sequences of stores <<address, value>>.  Channel 1 with a
\* sweep of pace 1 (period 0x400 step 0 up, 0x500 step 1 up, 0x500 step 1
\* down); each channel triggered with its length timer enabled, 3 or 4
\* length ticks before the end of a 6-bit or 8-bit timer, and channel 1
\* without; NR52 switched off and on around stores to channel 1
ApuPrograms ==
    {<<<<APU_ADDR_CH1_SWEEP, 16>>, <<APU_ADDR_CH1_VOL_ENVELOPE, 240>>,
       <<APU_ADDR_CH1_PERIOD_LOW, 0>>, <<APU_ADDR_CH1_PERIOD_HIGH_CTRL, 132>>>>,
     <<<<APU_ADDR_CH1_SWEEP, 17>>, <<APU_ADDR_CH1_VOL_ENVELOPE, 240>>,
       <<APU_ADDR_CH1_PERIOD_LOW, 0>>, <<APU_ADDR_CH1_PERIOD_HIGH_CTRL, 133>>>>,
     <<<<APU_ADDR_CH1_SWEEP, 25>>, <<APU_ADDR_CH1_VOL_ENVELOPE, 240>>,
       <<APU_ADDR_CH1_PERIOD_LOW, 0>>, <<APU_ADDR_CH1_PERIOD_HIGH_CTRL, 133>>>>,
     <<<<APU_ADDR_CH1_LENGTH_TIM_DC, 60>>, <<APU_ADDR_CH1_VOL_ENVELOPE, 240>>,
       <<APU_ADDR_CH1_PERIOD_HIGH_CTRL, 192>>>>,
     <<<<APU_ADDR_CH1_LENGTH_TIM_DC, 60>>, <<APU_ADDR_CH1_VOL_ENVELOPE, 240>>,
       <<APU_ADDR_CH1_PERIOD_HIGH_CTRL, 128>>>>,
     <<<<APU_ADDR_CH2_LENGTH_TIM_DC, 61>>, <<APU_ADDR_CH2_VOL_ENVELOPE, 240>>,
       <<APU_ADDR_CH2_PERIOD_HIGH_CTRL, 192>>>>,
     <<<<APU_ADDR_CH3_DAC_EN, 128>>, <<APU_ADDR_CH3_LENGTH_TIM, 253>>,
       <<APU_ADDR_CH3_PERIOD_HIGH_CTRL, 192>>>>,
     <<<<APU_ADDR_CH4_LENGTH_TIM, 61>>, <<APU_ADDR_CH4_VOL_ENVELOPE, 240>>,
       <<APU_ADDR_CH4_CTRL, 192>>>>,
     <<<<APU_ADDR_AUDIO_MASTER_CONTROL, 128>>, <<APU_ADDR_CH1_VOL_ENVELOPE, 240>>,
       <<APU_ADDR_CH1_PERIOD_HIGH_CTRL, 128>>, <<APU_ADDR_AUDIO_MASTER_CONTROL, 0>>,
       <<APU_ADDR_CH1_SWEEP, 34>>, <<APU_ADDR_AUDIO_MASTER_CONTROL, 128>>>>}

InitApu ==
    /\ InitMachine
    /\ \E prog \in ApuPrograms : hist = [NoHist EXCEPT !.snd.prog = prog]

\* the channel that a store of val to addr triggers, "none" if it triggers none
Triggered(addr, val) ==
    IF And(val, CH_TRIGGER) = 0 THEN "none"
    ELSE CASE addr = APU_ADDR_CH1_PERIOD_HIGH_CTRL -> "ch1"
           [] addr = APU_ADDR_CH2_PERIOD_HIGH_CTRL -> "ch2"
           [] addr = APU_ADDR_CH3_PERIOD_HIGH_CTRL -> "ch3"
           [] addr = APU_ADDR_CH4_CTRL -> "ch4"
           [] OTHER -> "none"

\* the initial length value in the NRx1 register of channel c
LengthValue(a, c) ==
    CASE c = "ch1" -> And(a.ch1_length_tim_dc, CH_LENGTH_TIMER_MSK)
      [] c = "ch2" -> And(a.ch2_length_tim_dc, CH_LENGTH_TIMER_MSK)
      [] c = "ch3" -> a.ch3_length_tim
      [] OTHER -> And(a.ch4_length_tim, CH_LENGTH_TIMER_MSK)

\* the next store of the program: bus_set_memory(addr, val)
ApuWrite ==
    /\ hist.snd.pc < Len(hist.snd.prog)
    /\ LET st == hist.snd.prog[hist.snd.pc + 1]
           M == bus_set_memory(Cur, st[1], st[2])
           c == Triggered(st[1], st[2])
       IN /\ Commit(M)
          /\ hist' = [Hist("apu_write", "none", 0, M.log, <<>>, hist.window)
                        EXCEPT !.snd.pc = @ + 1,
                               !.snd.init = IF c = "none" THEN @
                                            ELSE [@ EXCEPT ![c] = LengthValue(M.apu, c)],
                               !.snd.len = IF c = "none" THEN @ ELSE [@ EXCEPT ![c] = 0]]
    /\ UNCHANGED <<emulation_speed_cnt, speed, sched, threads, save>>

\* a call of a channel tick clocks the length timer of the channel x
LengthTick(x, div_apu_512Hz) ==
    /\ div_apu_512Hz /\ x.running /\ x.length_enable
    /\ CH_LENGTH_TIMER_PRESCALER <= x.length_timer_prescaler + 1

\* the channel ticks of one call of gbc_apu_tick
ApuTick ==
    \E ev \in BOOLEAN :
        LET M == ApuChannelsTick([Cur EXCEPT !.apu.div_apu_512Hz = ev], ev) IN
        /\ Commit(M)
        /\ hist' = [Hist("apu", "none", 0, M.log, <<>>, hist.window)
                        EXCEPT !.snd.len =
                            [c \in DOMAIN @ |->
                                IF LengthTick(apu[c], ev) THEN @[c] + 1 ELSE @[c]]]
        /\ UNCHANGED <<emulation_speed_cnt, speed, sched, threads, save>>

NextApu == ApuWrite \/ ApuTick

SpecApu == InitApu /\ [][NextApu]_vars

\* the sweep of channel 1 computes a new period in this call of its tick
SweepComputes ==
    /\ hist'.actor = "apu" /\ apu'.div_apu_512Hz
    /\ apu.ch1.running /\ apu.ch1.period_sweep_pace # 0
    /\ CH12_PERIOD_SWEEP_PRESCALER <= apu.ch1.period_sweep_pace_prescaler + 1
    /\ apu.ch1.period_sweep_pace <= apu.ch1.period_sweep_pace_counter + 1

\* period +- (period >> step) of channel 1
SweepNewPeriod ==
    IF apu.ch1.period_sweep_dir_subtract
    THEN apu.ch1.period - Shr(apu.ch1.period, apu.ch1.period_sweep_step)
    ELSE apu.ch1.period + Shr(apu.ch1.period, apu.ch1.period_sweep_step)

\* the 11 period bits of NR13/NR14 in the registers a
Ch1PeriodBits(a) ==
    a.ch1_period_low + And(a.ch1_period_high_ctrl, CH123_PERIOD_HIGH_MSK) * 256

\* C31: when the sweep of channel 1 computes a new period of 0x800 or more,
\* the channel is disabled and the internal period and the period bits of
\* NR13/NR14 stay as they are; otherwise the internal period and the period
\* bits of NR13/NR14 become the new period
C31_SweepWriteBack ==
    [][SweepComputes =>
        IF CH123_PERIOD_OVERFLOW <= SweepNewPeriod
        THEN /\ ~apu'.ch1.running
             /\ apu'.ch1.period = apu.ch1.period
             /\ Ch1PeriodBits(apu') = Ch1PeriodBits(apu)
        ELSE /\ apu'.ch1.period = SweepNewPeriod
             /\ Ch1PeriodBits(apu') = SweepNewPeriod]_vars

\* the sweep has overflowed from the period 0x780: channel 1 is disabled and
\* its period and NR13/NR14 hold 0x340 = 0xB40 & 0x7FF
C31_OverflowWrittenBack ==
    /\ hist.actor = "apu" /\ ~apu.ch1.running
    /\ apu.ch1_sweep = 17
    /\ apu.ch1.period = 832 /\ Ch1PeriodBits(apu) = 832

\* the number of length ticks after which the spec has channel c disabled when
\* it was triggered with the initial length value len
LengthTicksToStop(c, len) == IF c = "ch3" THEN 256 - len ELSE 64 - len

\* a tick of the APU that turns the running channel c off
ChannelStops(c) == hist'.actor = "apu" /\ apu[c].running /\ ~apu'[c].running

\* C32: a channel triggered with length-enable set and initial length value L is
\* running until it has had 64 - L length ticks (Ch1, Ch2, Ch4) or 256 - L length
\* ticks (Ch3) and is off from then on; with length-enable clear no tick of the
\* APU that clocks neither the sweep nor the envelope turns the channel off.
C32_LengthTimer ==
    [][\A c \in {"ch1", "ch2", "ch3", "ch4"} :
        /\ (hist'.snd.init[c] # -1 /\ apu'[c].length_enable)
             => (apu'[c].running
                   <=> hist'.snd.len[c] < LengthTicksToStop(c, hist'.snd.init[c]))
        /\ (ChannelStops(c) /\ ~apu[c].length_enable)
             => (c = "ch1" /\ SweepComputes)]_vars

\* channel 4, triggered with length-enable set and L = 61, is still running after
\* four length ticks
C32_Ch4RunsOn ==
    /\ hist.actor = "apu" /\ hist.snd.init["ch4"] = 61
    /\ apu.ch4.length_enable /\ apu.ch4.running
    /\ hist.snd.len["ch4"] = 4

\* the store that the step executes, <<0, 0>> when the step is not a store
StoreDone ==
    IF hist'.actor = "apu_write" /\ hist'.snd.pc = hist.snd.pc + 1
    THEN hist.snd.prog[hist'.snd.pc] ELSE <<0, 0>>

\* the last store to NR52 so far had bit 7 clear
PoweredOff ==
    \E i \in 1 .. hist.snd.pc :
        /\ hist.snd.prog[i][1] = APU_ADDR_AUDIO_MASTER_CONTROL
        /\ And(hist.snd.prog[i][2], AUDIO_MASTER_CONTROL_AUDIO_ON) = 0
        /\ \A j \in i + 1 .. hist.snd.pc :
              hist.snd.prog[j][1] # APU_ADDR_AUDIO_MASTER_CONTROL

\* the registers NR10 .. NR44 of the APU record a
ChannelRegisters(a) ==
    <<a.ch1_sweep, a.ch1_length_tim_dc, a.ch1_vol_envelope, a.ch1_period_low,
      a.ch1_period_high_ctrl, a.ch2_length_tim_dc, a.ch2_vol_envelope,
      a.ch2_period_low, a.ch2_period_high_ctrl, a.ch3_dac_en, a.ch3_length_tim,
      a.ch3_out_lvl, a.ch3_period_low, a.ch3_period_high_ctrl, a.ch4_length_tim,
      a.ch4_vol_envelope, a.ch4_freq_rand>>

\* C33: while the last store to NR52 had bit 7 clear every channel register is
\* zero and no channel is running, a store to a channel register leaves the APU
\* as it is, and no store to NR52 changes bits 0-3 of NR52.
C33_PowerOff ==
    [][/\ PoweredOff' =>
            /\ \A i \in DOMAIN ChannelRegisters(apu') : ChannelRegisters(apu')[i] = 0
            /\ \A c \in {"ch1", "ch2", "ch3", "ch4"} : ~apu'[c].running
       /\ (PoweredOff /\ StoreDone[1] \in APU_ADDR_CH1_SWEEP .. APU_ADDR_CH4_CTRL)
            => apu' = apu
       /\ StoreDone[1] = APU_ADDR_AUDIO_MASTER_CONTROL
            => And(apu'.audio_master_control, 15) = And(apu.audio_master_control, 15)
      ]_vars

\* after NR52 = 0x00 the store NR10 = 0x22 has been taken, and channel 1 is running
\* with its envelope register as written before
C33_StoreWhileOff ==
    /\ PoweredOff /\ hist.actor = "apu_write"
    /\ hist.snd.prog[hist.snd.pc] = <<APU_ADDR_CH1_SWEEP, 34>>
    /\ apu.ch1_sweep = 34 /\ apu.ch1_vol_envelope = 240
    /\ apu.ch1.running /\ And(apu.audio_master_control, AUDIO_MASTER_CONTROL_CH1_ON) # 0

(***************************************************************************)
(* Specification SpecUndef: a cartridge whose code runs into an undefined  *)
(* opcode.  The code at 0x0100 is LD A,0x05; LDH (0xFF),A; EI or NOP; the  *)
(* undefined opcode; the handlers at 0x0040 and 0x0050 are NOP; RETI.  The *)
(* peripherals raise interrupt requests at any time.                       *)
(***************************************************************************)
\* the byte of the cartridge at addr
UndefRom(und, addr) ==
    CASE addr = 256 -> 62
      [] addr = 257 -> 5
      [] addr = 258 -> 224
      [] addr = 259 -> 255
      [] addr = 260 -> IF und.ei THEN 251 ELSE 0
      [] addr = 261 -> und.opcode
      [] addr \in {ISR_VECTOR_VBLANK + 1, ISR_VECTOR_TIMER + 1} -> 217
      [] OTHER -> 0

InitUndef ==
    /\ InitMachine
    /\ \E o \in OPC_NONE, ei \in BOOLEAN :
          hist = [NoHist EXCEPT !.und = [opcode |-> o, ei |-> ei, stuck |-> FALSE]]

\* the opcode at pc is an undefined one
UndefinedAtPc == UndefRom(hist.und, cpu.pc) \in OPC_NONE

\* one call of gbc_cpu_tick, the fetched bytes taken from the cartridge
UndefTick ==
    /\ InWindow(cpu)
    /\ LET r == gbc_cpu_tick(Cur, <<UndefRom(hist.und, cpu.pc),
                                    UndefRom(hist.und, U16(cpu.pc + 1)),
                                    UndefRom(hist.und, U16(cpu.pc + 2))>>)
       IN /\ Commit(r.m)
          /\ hist' = [Hist("cpu", r.path, r.cycle_cnt, r.m.log, <<>>, hist.window)
                        EXCEPT !.und.stuck = @ \/ (r.path = "opcode" /\ UndefinedAtPc)]
    /\ UNCHANGED <<emulation_speed_cnt, speed, sched, threads, save>>

NextUndef == UndefTick \/ RaiseIrq

SpecUndef == InitUndef /\ [][NextUndef]_vars

\* the registers of the CPU that a program can observe
CpuRegisters(c) == <<c.a, c.f, c.b, c.c, c.d, c.e, c.h, c.l, c.pc, c.sp,
                     c.interrupts_enabled>>

\* C34: a tick that fetches an undefined opcode writes nothing to the bus and
\* leaves PC, SP, IME and the registers as they are, and once an undefined
\* opcode has been fetched no tick of the CPU executes another instruction.
C34_UndefinedOpcodeHalts ==
    [][hist'.actor = "cpu" =>
        /\ (hist'.kind = "opcode" /\ UndefinedAtPc)
             => (hist'.log = <<>> /\ CpuRegisters(cpu') = CpuRegisters(cpu))
        /\ hist.und.stuck => (hist'.kind # "opcode" \/ UndefinedAtPc)]_vars

\* after the undefined opcode at 0x0105 was fetched the NOP of the timer handler
\* has been executed
C34_HandlerRunsAfterwards ==
    /\ hist.und.stuck /\ hist.actor = "cpu" /\ hist.kind = "opcode"
    /\ cpu.last_opcode = 0 /\ cpu.last_addr = ISR_VECTOR_TIMER
    /\ cpu.pc = ISR_VECTOR_TIMER + 1

(***************************************************************************)
(* Specification SpecIsr: the emulation thread runs the cartridge CartIsr, *)
(* which counts timer interrupts and stops.  emulator_run calls bus_tick   *)
(* in a loop without a condition until the CPU is stopped, so the step of  *)
(* the emulation thread is taken whenever it is possible.                  *)
(***************************************************************************)
\* the emulation thread takes at most MaxIsrTicks bus ticks
MaxIsrTicks == 200

EmulatorRunIsr == EmulatorRunFrom("isr", {"none", "vblank"}, MaxIsrTicks)

\* an iteration of the loop of emulator_run, seen from the scheduler: it is
\* possible exactly when EmulatorRunIsr is, and the iterations are the steps of
\* EmulatorRunIsr
EmulatorLoop ==
    /\ sched.running
    /\ sched.ticks < MaxIsrTicks
    /\ Fetch("isr", cpu) # {}
    /\ sched' \in {[running |-> r, ticks |-> sched.ticks + 1] : r \in BOOLEAN}

SpecIsr == Init /\ [][EmulatorRunIsr]_vars /\ WF_sched(EmulatorLoop)

\* the timer interrupt is requested while the program is running
TimerRequested == And(bus.IF_, INTERRUPT_TIMER) # 0 /\ ~cpu.stopped

\* the dispatch to the timer vector has been completed
TimerEntered ==
    /\ hist.actor = "emu" /\ hist.kind = "interrupt"
    /\ isr_state = "isr_state_idle_e"
    /\ cpu.pc = ISR_VECTOR_TIMER
    /\ And(bus.IF_, INTERRUPT_TIMER) = 0

\* C35: every request of the timer interrupt is followed by the entry to the
\* vector 0x0050 with IF bit 2 cleared, and the program that counts IsrBound
\* timer interrupts executes STOP, after which emulator_run has returned.
C35_TimerInterruptsServed ==
    /\ [](TimerRequested => <>TimerEntered)
    /\ <>(cpu.stopped /\ ~sched.running)

\* STOP has been executed after IsrBound timer interrupts, and emulator_run has
\* returned
C35_StoppedAfterBound ==
    /\ cpu.stopped /\ ~sched.running
    /\ cpu.a = IsrBound /\ cpu.last_opcode = 16
    /\ hist.actor = "emu"

(***************************************************************************)
(* Specification SpecVdst: VRAM-DMA transfers to the end of the VRAM.  The *)
(* program enables the cartridge RAM, stores a byte in the WRAM, writes    *)
(* the registers 0xFF52-0xFF55; the PPU calls bus_HBlank_cb while an       *)
(* HBlank transfer is active.                                              *)
(***************************************************************************)
\* the program makes at most MaxVdstWrites bus writes
MaxVdstWrites == 6

\* <<address, value>>: RAM enable (0x0A to 0x0000), a byte at 0xC010, source high
\* 0xC0, destination low 0xF0 and 0xE0, destination high 0x1F, length/mode/start
\* 0x00 (16 bytes), 0x01 (32 bytes) and 0x81 (32 bytes at H-Blank)
VdstWrites ==
    {<<0, 10>>, <<49168, 90>>, <<65362, 192>>, <<65363, 240>>, <<65363, 224>>,
     <<65364, 31>>, <<65365, 0>>, <<65365, 1>>, <<65365, 129>>}

VdstWrite ==
    /\ hist.dma.stores < MaxVdstWrites
    /\ \E w \in VdstWrites :
        LET M == bus_set_memory(Cur, w[1], w[2]) IN
        /\ Commit(M)
        /\ hist' = [Hist("vdma_write", "none", 0, M.log, <<>>, hist.window)
                        EXCEPT !.dma.stores = @ + 1]
    /\ UNCHANGED <<emulation_speed_cnt, speed, sched, threads, save>>

NextVdst == VdstWrite \/ HBlankCb

SpecVdst == Init /\ [][NextVdst]_vars

\* the bus writes that the VRAM-DMA makes in the step: all writes of an H-Blank
\* callback, and the writes that follow the store to 0xFF55
DmaBytes ==
    IF hist'.actor = "hblank" THEN hist'.log
    ELSE IF hist'.actor = "vdma_write" /\ hist'.log[1][1] = 65365
    THEN Tail(hist'.log) ELSE <<>>

\* C36: every byte that a VRAM-DMA transfer writes goes to an address in
\* 0x8000-0x9FFF, and the transfer changes neither the cartridge RAM nor the WRAM.
C36_DmaStaysInVram ==
    [][DmaBytes # <<>> =>
        /\ \A i \in 1 .. Len(DmaBytes) : DmaBytes[i][1] \in 32768 .. 40959
        /\ ext_ram' = ext_ram
        /\ wram' = wram]_vars

\* a general-purpose transfer of 32 bytes to 0x9FF0 has put the byte of 0xC010 in
\* the cartridge RAM at 0xA000
C36_ByteInCartridgeRam ==
    /\ hist.actor = "vdma_write"
    /\ Len(hist.log) = 33 /\ hist.log[1] = <<65365, 1>>
    /\ hist.log[18] = <<40960, 90>>
    /\ bus.ext_ram_enabled
    /\ MemGet(ext_ram, bus.ext_ram_banksel * 8192) = 90

(***************************************************************************)
(* Specification SpecRestore: the cartridge CartIsr runs; at a bus_tick    *)
(* boundary the state is written with emulator_write_save_file and the     *)
(* program is started again with that file.  The components read back are  *)
(* cpu, bus, ppu and timer with the memories they hold; the statics of     *)
(* cpu_handle_interrupt, bus_tick and gbc_apu_tick start from their        *)
(* initialisers.                                                           *)
(***************************************************************************)
\* the program is restarted from a save file at most MaxRestores times
MaxRestores == 1

RestoreState ==
    /\ sched.running
    /\ hist.sav.loads < MaxRestores
    /\ isr_state' = "isr_state_idle_e"
    /\ isr' = 0
    /\ emulation_speed_cnt' = 0
    /\ apu' = [apu EXCEPT !.last_div = 0]
    /\ hist' = [Hist("restore", "none", 0, <<>>, <<>>, <<>>)
                    EXCEPT !.sav.loads = @ + 1,
                           !.sav.between = (isr_state = "isr_state_setup_pc_e")]
    /\ UNCHANGED <<cpu, bus, timer, ppu, wram, hram, ext_ram, vram, oam, joypad,
                   speed, sched, threads, save>>

NextRestore == EmulatorRunIsr \/ RestoreState

SpecRestore == Init /\ [][NextRestore]_vars

\* the components of the machine M that the save file holds
SavedPart(M) ==
    <<M.cpu, M.bus, M.timer, M.ppu, M.wram, M.hram, M.ext_ram, M.vram, M.oam>>

\* the saved components after the next bus_tick of the machine M with the
\* throttle counter cnt
TickOf(M, cnt) ==
    IF Fetch("isr", M.cpu) = {} THEN SavedPart(M)
    ELSE LET ins == CHOOSE i \in Fetch("isr", M.cpu) : TRUE
         IN SavedPart(bus_tick(M, <<ins, ins>>, "none", cnt, speed).m)

\* C37: the bus_tick that follows a restart from a save file leads to the same
\* state as the bus_tick that follows in the run that was saved; a dispatch that
\* was between its phases is completed by it.
C37_RestoreContinues ==
    [][hist'.actor = "restore" =>
          TickOf(CurAfter, emulation_speed_cnt') = TickOf(Cur, emulation_speed_cnt)]_vars

\* the program was restarted from a state between the two phases of the dispatch
\* of the timer interrupt: the request is pending, nothing has been pushed, and
\* cpu_handle_interrupt is idle again
C37_RestoredBetweenPhases ==
    /\ hist.actor = "restore" /\ hist.sav.between
    /\ isr_state = "isr_state_idle_e"
    /\ cpu.interrupts_enabled
    /\ And(And(bus.IE, bus.IF_), INTERRUPT_TIMER) # 0
    /\ cpu.sp = 65534

\* C38: after every PPU tick STAT bits 0-1 are the mode of the PPU and STAT bit 2
\* tells whether LY equals LYC.
C38_StatMirrorsPpu ==
    hist.actor = "ppu" =>
        /\ And(ppu.stat, STAT_PPU_MODE) = ModeNo(ppu.mode)
        /\ (And(ppu.stat, STAT_LYC_EQ_LY) # 0) <=> (ppu.ly = ppu.lyc)

\* the tick that ends scanline 0, with no store made by the program: the PPU is
\* in mode 2 on line 1 while STAT shows mode 0 and LY = LYC
C38_StaleStatAtLineStart ==
    /\ hist.actor = "ppu" /\ hist.pp.writes = 0
    /\ ppu.ly = 1 /\ ppu.lyc = 0 /\ ppu.line_dot_cnt = 0
    /\ ppu.mode = "mode2_oam_scan"
    /\ And(ppu.stat, STAT_PPU_MODE) = 0
    /\ And(ppu.stat, STAT_LYC_EQ_LY) # 0

(***************************************************************************)
(* Specification SpecZero: the timer is ticked, and the program zeroes DIV *)
(* by a store to 0xFF04 or by STOP.                                        *)
(***************************************************************************)
\* gbc_timer_tick is called at most MaxZeroTicks times
MaxZeroTicks == 600

\* DIV is zeroed at most MaxZeroings times
MaxZeroings == 2

\* the program zeroes DIV after so many calls of gbc_timer_tick
ZeroAt == {0, 100, 256, 300}

\* a store instruction to DIV: bus_set_memory(0xFF04, val)
ZeroByWrite ==
    LET M == bus_set_memory(Cur, TIMER_ADDR_DIV, 90) IN
    /\ hist.tim.writes < MaxZeroings
    /\ hist.tim.ticks \in ZeroAt
    /\ Commit(M)
    /\ hist' = [Hist("div_write", "none", 0, M.log, <<>>, hist.window)
                    EXCEPT !.tim.writes = @ + 1, !.tim.zeroed = 0]
    /\ UNCHANGED <<emulation_speed_cnt, speed, sched, threads, save>>

\* the gbc_cpu_tick that executes STOP: case OPC_STOP calls gbc_timer_diva_reset
ZeroByStop ==
    LET r == gbc_cpu_tick(Cur, <<16, 0, 0>>) IN
    /\ ~cpu.stopped
    /\ hist.tim.writes < MaxZeroings
    /\ hist.tim.ticks \in ZeroAt
    /\ Commit(r.m)
    /\ hist' = [Hist("cpu", r.path, r.cycle_cnt, r.m.log, <<>>, hist.window)
                    EXCEPT !.tim.writes = @ + 1, !.tim.zeroed = 0]
    /\ UNCHANGED <<emulation_speed_cnt, speed, sched, threads, save>>

\* one call of gbc_timer_tick
ZeroTimerRun ==
    /\ hist.tim.ticks < MaxZeroTicks
    /\ LET M == gbc_timer_tick(Cur) IN
        /\ Commit(M)
        /\ hist' = [Hist("timer", "none", 0, M.log, <<>>, hist.window)
                        EXCEPT !.tim.ticks = @ + 1,
                               !.tim.zeroed = IF @ >= 0 THEN @ + 1 ELSE @]
    /\ UNCHANGED <<emulation_speed_cnt, speed, sched, threads, save>>

NextZero == ZeroByWrite \/ ZeroByStop \/ ZeroTimerRun

SpecZero == Init /\ [][NextZero]_vars

\* C39: after DIV was zeroed by a store to 0xFF04 or by STOP, DIV reads 0 until
\* 255 calls of gbc_timer_tick have been made and reads 1 after the 256th.
C39_DivRestartsPeriod ==
    /\ hist.tim.zeroed \in 0 .. 255 => bus_get_memory(Cur, TIMER_ADDR_DIV) = 0
    /\ hist.tim.zeroed = 256 => bus_get_memory(Cur, TIMER_ADDR_DIV) = 1

\* DIV was zeroed after 100 timer ticks and reads 1 after 156 more
C39_DivEarly ==
    /\ hist.actor = "timer" /\ hist.tim.writes = 1
    /\ hist.tim.ticks = 256 /\ hist.tim.zeroed = 156
    /\ bus_get_memory(Cur, TIMER_ADDR_DIV) = 1

(***************************************************************************)
(* Specification SpecWait: the hand-over between the emulation thread in   *)
(* emulator_wait_for_data_collection (main.c:521-532) and the audio thread *)
(* in audio_callback (main.c:130-168).  Every operation on                 *)
(* gEmulatorDataMutex and gEmulatorDataCond is a step of its own:          *)
(* SDL_LockMutex waits until the mutex is free, SDL_CondWait releases the  *)
(* mutex and sleeps until a signal, then takes the mutex again.  A sample  *)
(* store of gbc_apu_tick and the copy of emulator_get_audio_data are one   *)
(* step each; their interleavings are those of SpecAudio.                  *)
(***************************************************************************)
\* SDL_CondSignal that wakes nobody
CondSignalNone(t) == t

\* SDL_CondSignal(gEmulatorDataCond) (main.c:164): a thread sleeping in
\* SDL_CondWait is woken, a signal without a sleeper is forgotten
CondSignal(t) ==
    IF t.emu.pc = "sleep" THEN [t EXCEPT !.emu.pc = "woken"] ELSE t

\* the emulation thread is inside emulator_wait_for_data_collection
InWait == threads.emu.pc \in {"wait", "test", "sleep", "woken", "clear", "unlock"}

\* gbc_apu_tick with sampling_timer wrapped to 0: the two stores and
\* MAX_NUM_SAMPLES <= ++apu.stereo_data.index (apu.c:626-628)
EmuSample ==
    /\ threads.emu.pc = "run"
    /\ apu' = [apu EXCEPT !.index = @ + 1]
    /\ threads' = [threads EXCEPT !.emu.pc =
                        IF SampleBufferFull(apu.index + 1) THEN "wait" ELSE "run"]
    /\ hist' = ThreadHist("emu")
    /\ UNCHANGED <<cpu, isr_state, isr, bus, timer, ppu, wram, hram, ext_ram, vram,
                   oam, joypad, emulation_speed_cnt, speed, sched, save>>

\* one step of the emulation thread in emulator_wait_for_data_collection and
\* the statement after the call (apu.c:630-631)
EmuWait ==
    LET e == threads.emu IN
    /\ \/ /\ e.pc \in {"wait", "woken"}   \* SDL_LockMutex, or the end of SDL_CondWait
          /\ threads.mutex = "none"
          /\ threads' = [threads EXCEPT !.emu.pc = "test", !.mutex = "emu"]
          /\ hist' = ThreadHist("emu")
          /\ apu' = apu
       \/ /\ e.pc = "test"                \* while (!gEmulatorDataCollected)
          /\ threads.collected # 0
          /\ threads' = [threads EXCEPT !.emu.pc = "clear"]
          /\ hist' = ThreadHist("emu")
          /\ apu' = apu
       \/ /\ e.pc = "test"                \* SDL_CondWait gives the mutex back
          /\ threads.collected = 0
          /\ threads' = [threads EXCEPT !.emu.pc = "sleep", !.mutex = "none"]
          /\ hist' = [ThreadHist("emu") EXCEPT !.thr.slept = TRUE]
          /\ apu' = apu
       \/ /\ e.pc = "clear"               \* gEmulatorDataCollected = 0
          /\ threads' = [threads EXCEPT !.emu.pc = "unlock", !.collected = 0]
          /\ hist' = ThreadHist("emu")
          /\ apu' = apu
       \/ /\ e.pc = "unlock"              \* SDL_UnlockMutex
          /\ threads' = [threads EXCEPT !.emu.pc = "reset", !.mutex = "none"]
          /\ hist' = ThreadHist("emu")
          /\ apu' = apu
       \/ /\ e.pc = "reset"               \* apu.stereo_data.index = 0
          /\ apu' = [apu EXCEPT !.index = 0]
          /\ threads' = [threads EXCEPT !.emu.pc = "run"]
          /\ hist' = [ThreadHist("emu_reset") EXCEPT !.thr.slept = FALSE]
    /\ UNCHANGED <<cpu, isr_state, isr, bus, timer, ppu, wram, hram, ext_ram, vram,
                   oam, joypad, emulation_speed_cnt, speed, sched, save>>

\* one step of the audio thread: SDL calls audio_callback, which empties the
\* sample buffer and then sets the flag and signals under the mutex
AudioSignal ==
    LET a == threads.audio IN
    /\ \/ /\ a.pc = "idle"                \* emulator_get_audio_data
          /\ apu' = [apu EXCEPT !.index = 0]
          /\ threads' = [threads EXCEPT !.audio.pc = "lock"]
       \/ /\ a.pc = "lock"                \* SDL_LockMutex
          /\ threads.mutex = "none"
          /\ threads' = [threads EXCEPT !.audio.pc = "set", !.mutex = "audio"]
          /\ apu' = apu
       \/ /\ a.pc = "set"                 \* gEmulatorDataCollected = 1
          /\ threads' = [threads EXCEPT !.audio.pc = "cond", !.collected = 1]
          /\ apu' = apu
       \/ /\ a.pc = "cond"                \* SDL_CondSignal
          /\ threads' = [CondSignal(threads) EXCEPT !.audio.pc = "unlock"]
          /\ apu' = apu
       \/ /\ a.pc = "unlock"              \* SDL_UnlockMutex, return
          /\ threads' = [threads EXCEPT !.audio.pc = "idle", !.mutex = "none"]
          /\ apu' = apu
    /\ hist' = ThreadHist("audio")
    /\ UNCHANGED <<cpu, isr_state, isr, bus, timer, ppu, wram, hram, ext_ram, vram,
                   oam, joypad, emulation_speed_cnt, speed, sched, save>>

NextWait == EmuSample \/ EmuWait \/ AudioSignal

\* The audio device keeps calling audio_callback and the callback runs to
\* its end once the mutex is free (weak fairness of the audio thread); the
\* emulation thread keeps running, and a thread that finds the mutex free
\* again and again gets it at last (strong fairness of its steps)
SpecWait ==
    Init /\ [][NextWait]_vars
         /\ WF_vars(AudioSignal) /\ WF_vars(EmuSample) /\ SF_vars(EmuWait)

\* C40: while the audio callback keeps running, an emulation thread that has
\* entered emulator_wait_for_data_collection always leaves it again, and no
\* wake-up is lost: it never sleeps in SDL_CondWait with the flag set and
\* no signal to come
C40_WaitIsReleased ==
    /\ [](InWait => <>(threads.emu.pc = "reset"))
    /\ []((threads.emu.pc = "sleep" /\ threads.collected # 0)
            => threads.audio.pc = "cond")

\* the emulation thread slept in SDL_CondWait, was woken by the callback and
\* has left emulator_wait_for_data_collection
C40_ReleasedAfterSleep ==
    /\ threads.emu.pc = "reset" /\ hist.actor = "emu"
    /\ hist.thr.slept
    /\ threads.collected = 0 /\ threads.mutex = "none"


====
